---- MODULE Spec2Model ----
(***************************************************************************)
(* A model of sqld (remiges-tech/sqld): the model registry, the raw-query  *)
(* pipeline, the structured UPDATE builder and the executors.              *)
(*                                                                         *)
(* The repository carries two registration policies: registry.go returns  *)
(* an "already registered" error on a second Register, the later registry *)
(* (unnamed/part_013, second file) silently succeeds.  The variable        *)
(* variant selects the policy a run is checked under.                      *)
(***************************************************************************)
EXTENDS Integers, Sequences, FiniteSets, TLC

VARIABLES
    variant,     \* "strict" (registry.go) or "idempotent" (part_013:232)
    models,      \* Registry.models: record type -> ModelMetadata
    scanners,    \* Registry.scanners: type -> scanner factory
    converters,  \* Registry.converters: type -> TypeConverter
    mu,          \* Registry.mu (sync.RWMutex): [w: writer or 0, r: set of readers]
    pc,          \* per goroutine: position inside the registry method it runs
    op,          \* per goroutine: the method called and its argument
    loc,         \* per goroutine: Register's locals (field index i, metadata)
    ret,         \* per goroutine: what the last finished call returned
    regd,        \* per goroutine: the record types its own Register returned for
    snap,        \* per goroutine: the registry's maps when its call took the lock
    ncalls,      \* number of registry calls started so far
    call         \* the last Execute / ExecuteRaw / ExecuteUpdate call and its outcome

vars == <<variant, models, scanners, converters, mu, pc, op, loc, ret, regd, snap, ncalls, call>>

(***************************************************************************)
(* Bounds                                                                  *)
(***************************************************************************)
NumProcs == 2

MaxCalls == 3

Procs == 1..NumProcs

(***************************************************************************)
(* Record types (Go structs) handed to the registry.  Each struct field    *)
(* has its Go name, its db tag, its json tag and its Go type; "" is an     *)
(* absent tag.                                                             *)
(***************************************************************************)
SF(name, db, json, type) == [name |-> name, db |-> db, json |-> json, type |-> type]

ModelTypes == {"TestModel", "PgModel", "BadDbModel", "BadJsonModel"}

StructFields(t) ==
    CASE t = "TestModel" ->
            << SF("ID", "id", "id", "int64"),
               SF("Name", "name", "name", "string"),
               SF("IsActive", "is_active", "is_active", "bool") >>
      [] t = "PgModel" ->
            << SF("ID", "id", "id", "int64"),
               SF("Title", "title", "title", "pgtype.Text") >>
      [] t = "BadDbModel" ->
            << SF("Note", "note", "note", "pgtype.Text"),
               SF("Secret", "", "secret", "string") >>
      [] t = "BadJsonModel" ->
            << SF("ID", "id", "id", "int64"),
               SF("Hidden", "hidden", "", "string") >>
      [] t = "ValidatorTestModel" ->
            << SF("ID", "id", "id", "int"),
               SF("Name", "name", "name", "string"),
               SF("Active", "active", "active", "bool"),
               SF("Salary", "salary", "salary", "float64"),
               SF("Nullable", "nullable", "nullable", "*string") >>
      [] t = "ArrayTestModel" ->
            << SF("ID", "id", "id", "int64"),
               SF("Name", "name", "name", "string"),
               SF("ReportingTo", "reporting_to", "reporting_to", "[]int64") >>
      [] t = "EventModel" ->
            << SF("ID", "id", "id", "int64"),
               SF("Name", "name", "name", "pgtype.Text"),
               SF("CreatedAt", "created_at", "created_at", "pgtype.Timestamptz") >>
      [] t = "DupJsonModel" ->
            << SF("ID", "id", "id", "int64"),
               SF("LegacyID", "legacy_id", "id", "int64") >>
      [] t = "DupDbModel" ->
            << SF("ID", "id", "id", "int64"),
               SF("Alias", "id", "alias", "int64") >>

TableName(t) ==
    CASE t = "TestModel" -> "test_models"
      [] t = "PgModel" -> "pg_models"
      [] t = "BadDbModel" -> "bad_db_models"
      [] t = "BadJsonModel" -> "bad_json_models"
      [] t = "ValidatorTestModel" -> "test_models"
      [] t = "ArrayTestModel" -> "array_test_models"
      [] t = "EventModel" -> "events"
      [] t = "DupJsonModel" -> "dup_json_models"
      [] t = "DupDbModel" -> "dup_db_models"

ValidModels == {"TestModel", "PgModel"}

\* reflect.Type.PkgPath() == "github.com/jackc/pgx/v5/pgtype"
IsPgtype(type) == type \in {"pgtype.Text", "pgtype.Int8", "pgtype.Bool", "pgtype.Timestamptz"}

\* reflect.Type.Kind()
Kind(type) ==
    CASE type \in {"int", "CustomInt"} -> "int"
      [] type = "int64" -> "int64"
      [] type = "int32" -> "int32"
      [] type = "float64" -> "float64"
      [] type \in {"string", "Status"} -> "string"
      [] type = "bool" -> "bool"
      [] type = "interface {}" -> "interface"
      [] type \in {"[]int64", "[]string", "[]interface {}"} -> "slice"
      [] type = "*string" -> "ptr"
      [] OTHER -> "struct"

\* for rt.Kind() == reflect.Pointer { rt = rt.Elem() }
Deref(rt) == IF rt = "*string" THEN "string" ELSE rt

normalizeReflectType(rt) ==
    CASE Deref(rt) = "pgtype.Text" -> "string"
      [] Deref(rt) = "pgtype.Int8" -> "int64"
      [] Deref(rt) = "pgtype.Bool" -> "bool"
      [] Deref(rt) = "pgtype.Timestamptz" -> "time.Time"
      [] OTHER -> IF Kind(Deref(rt)) = "string" THEN "string" ELSE Deref(rt)

Field(f) ==
    [Name |-> f.db, JSONName |-> f.json, GoFieldName |-> f.name,
     Type |-> f.type, NormalizedType |-> normalizeReflectType(f.type)]

NoErr == "nil"

EmptyMetadata(t) == [TableName |-> TableName(t), Fields |-> <<>>]

NoMetadata == [TableName |-> "", Fields |-> <<>>]

ScannerTypes == {"CustomInt"}

ConverterTypes == {"pgtype.Text"}

AutoConverter == "auto"

UserConverter == "user"

Factory == "factory"

(***************************************************************************)
(* sync.RWMutex                                                            *)
(***************************************************************************)
CanLockIgnoringReaders == mu.w = 0

CanLock == mu.w = 0 /\ mu.r = {}

CanRLock == mu.w = 0

NoLoc == [i |-> 0, md |-> NoMetadata]

NoRet == [err |-> NoErr, val |-> "none"]

NoOp == [name |-> "none", arg |-> "none"]

Idle == [name |-> "idle"]

NoSnap == [models |-> <<>>, scanners |-> <<>>, converters |-> <<>>]

Registry == [models |-> models, scanners |-> scanners, converters |-> converters]

Init ==
    /\ variant \in {"strict", "idempotent"}
    /\ models = <<>>
    /\ scanners = <<>>
    /\ converters = <<>>
    /\ mu = [w |-> 0, r |-> {}]
    /\ pc = [p \in Procs |-> "idle"]
    /\ op = [p \in Procs |-> NoOp]
    /\ loc = [p \in Procs |-> NoLoc]
    /\ ret = [p \in Procs |-> NoRet]
    /\ regd = [p \in Procs |-> {}]
    /\ snap = [p \in Procs |-> NoSnap]
    /\ ncalls = 0
    /\ call = Idle

(***************************************************************************)
(* Registry methods.  A goroutine enters a method by taking the lock       *)
(* (first statement of every method) and leaves it through the deferred    *)
(* unlock.  RegisterConverter and GetConverter exist only in registry.go.  *)
(***************************************************************************)
WriteCalls ==
    [name : {"Register"}, arg : ModelTypes]
    \cup [name : {"RegisterScanner"}, arg : ScannerTypes]
    \cup [name : {"RegisterConverter"}, arg : ConverterTypes]

ReadCalls ==
    [name : {"GetModelMetadata"}, arg : ModelTypes]
    \cup [name : {"GetScanner"}, arg : ScannerTypes]
    \cup [name : {"GetConverter"}, arg : ConverterTypes]

\* r.mu.Lock() at the head of Register, RegisterScanner, RegisterConverter
Lock(p) ==
    /\ pc[p] \in {"idle", "done"}
    /\ ncalls < MaxCalls
    /\ CanLock
    /\ \E c \in WriteCalls :
        /\ c.name = "RegisterConverter" => variant = "strict"
        /\ op' = [op EXCEPT ![p] = c]
        /\ pc' = [pc EXCEPT ![p] = IF c.name = "Register" THEN "check" ELSE "cs"]
    /\ mu' = [mu EXCEPT !.w = p]
    /\ ret' = [ret EXCEPT ![p] = NoRet]
    /\ snap' = [snap EXCEPT ![p] = Registry]
    /\ ncalls' = ncalls + 1
    /\ UNCHANGED <<variant, models, scanners, converters, loc, regd, call>>

\* r.mu.RLock() at the head of GetModelMetadata, GetScanner, GetConverter
RLock(p) ==
    /\ pc[p] \in {"idle", "done"}
    /\ ncalls < MaxCalls
    /\ CanRLock
    /\ \E c \in ReadCalls :
        /\ c.name = "GetConverter" => variant = "strict"
        /\ op' = [op EXCEPT ![p] = c]
    /\ pc' = [pc EXCEPT ![p] = "cs"]
    /\ mu' = [mu EXCEPT !.r = @ \cup {p}]
    /\ ret' = [ret EXCEPT ![p] = NoRet]
    /\ snap' = [snap EXCEPT ![p] = Registry]
    /\ ncalls' = ncalls + 1
    /\ UNCHANGED <<variant, models, scanners, converters, loc, regd, call>>

\* defer r.mu.Unlock()
Unlock(m) == [m EXCEPT !.w = 0]

\* defer r.mu.RUnlock()
RUnlock(m, p) == [m EXCEPT !.r = @ \ {p}]

\* A write method of goroutine p returns r: the deferred unlock runs.
ReturnW(p, r) ==
    /\ ret' = [ret EXCEPT ![p] = r]
    /\ pc' = [pc EXCEPT ![p] = "done"]
    /\ loc' = [loc EXCEPT ![p] = NoLoc]
    /\ mu' = Unlock(mu)
    /\ regd' = [regd EXCEPT ![p] = IF op[p].name = "Register" THEN @ \cup {op[p].arg} ELSE @]
    /\ snap' = [snap EXCEPT ![p] = NoSnap]

\* A read method of goroutine p returns r: the deferred unlock runs.
ReturnR(p, r) ==
    /\ ret' = [ret EXCEPT ![p] = r]
    /\ pc' = [pc EXCEPT ![p] = "done"]
    /\ mu' = RUnlock(mu, p)
    /\ snap' = [snap EXCEPT ![p] = NoSnap]

Err(e) == [err |-> e, val |-> "none"]

\* What Register returns for a record type that is already in r.models.
AlreadyRegistered(v) == IF v = "strict" THEN "already registered" ELSE NoErr

IsRegisteredNever(ms, t) == FALSE

\* _, exists := r.models[t]
IsRegistered(ms, t) == t \in DOMAIN ms

\* Register: if _, exists := r.models[t]; exists { return ... }
RegisterCheck(p) ==
    /\ pc[p] = "check"
    /\ IF IsRegistered(models, op[p].arg)
          THEN ReturnW(p, Err(AlreadyRegistered(variant)))
          ELSE /\ loc' = [loc EXCEPT ![p] = [i |-> 1, md |-> EmptyMetadata(op[p].arg)]]
               /\ pc' = [pc EXCEPT ![p] = "scan"]
               /\ UNCHANGED <<ret, mu, regd, snap>>
    /\ UNCHANGED <<variant, models, scanners, converters, op, ncalls, call>>

\* The converters map after Register has looked at a field of type fieldType.
AutoRegister(v, convs, fieldType) ==
    IF v = "strict" /\ IsPgtype(fieldType) /\ fieldType \notin DOMAIN convs
       THEN (fieldType :> AutoConverter) @@ convs
       ELSE convs

\* metadata.Fields[jsonName] = Field{...}
AddField(md, f) == [md EXCEPT !.Fields = (f.json :> Field(f)) @@ @]

\* One iteration of Register's loop over the struct fields.
RegisterScanField(p) ==
    /\ pc[p] = "scan"
    /\ LET fs == StructFields(op[p].arg)
           i  == loc[p].i
       IN IF i > Len(fs)
             THEN /\ pc' = [pc EXCEPT ![p] = "commit"]
                  /\ UNCHANGED <<loc, ret, mu, regd, snap, converters>>
          ELSE IF fs[i].db = ""
             THEN /\ ReturnW(p, Err("missing required db tag"))
                  /\ UNCHANGED converters
          ELSE IF fs[i].json = ""
             THEN /\ ReturnW(p, Err("missing required json tag"))
                  /\ UNCHANGED converters
          ELSE /\ converters' = AutoRegister(variant, converters, fs[i].type)
               /\ loc' = [loc EXCEPT ![p] = [i |-> i + 1, md |-> AddField(loc[p].md, fs[i])]]
               /\ UNCHANGED <<pc, ret, mu, regd, snap>>
    /\ UNCHANGED <<variant, models, scanners, op, ncalls, call>>

StoreFresh(ms, t, md) == (t :> md)

\* The models map after Register stores metadata md for record type t.
Store(ms, t, md) == (t :> md) @@ ms

\* Register: r.models[t] = metadata; return nil
RegisterCommit(p) ==
    /\ pc[p] = "commit"
    /\ models' = Store(models, op[p].arg, loc[p].md)
    /\ ReturnW(p, Err(NoErr))
    /\ UNCHANGED <<variant, scanners, converters, op, ncalls, call>>

\* r.scanners[t] = scannerFactory
RegisterScanner(p) ==
    /\ pc[p] = "cs"
    /\ op[p].name = "RegisterScanner"
    /\ scanners' = (op[p].arg :> Factory) @@ scanners
    /\ ReturnW(p, Err(NoErr))
    /\ UNCHANGED <<variant, models, converters, op, ncalls, call>>

\* r.converters[t] = converter
RegisterConverter(p) ==
    /\ pc[p] = "cs"
    /\ op[p].name = "RegisterConverter"
    /\ converters' = (op[p].arg :> UserConverter) @@ converters
    /\ ReturnW(p, Err(NoErr))
    /\ UNCHANGED <<variant, models, scanners, op, ncalls, call>>

\* fmt.Errorf("model %s not registered", t.Name())
NotRegistered(t) == "model " \o t \o " not registered"

LookupWithoutOk(ms, t) ==
    [err |-> NoErr, val |-> IF t \in DOMAIN ms THEN ms[t] ELSE NoMetadata]

\* The (metadata, error) pair GetModelMetadata returns for record type t.
Lookup(ms, t) ==
    IF t \in DOMAIN ms
       THEN [err |-> NoErr, val |-> ms[t]]
       ELSE [err |-> NotRegistered(t), val |-> NoMetadata]

GetModelMetadata(p) ==
    /\ pc[p] = "cs"
    /\ op[p].name = "GetModelMetadata"
    /\ ReturnR(p, Lookup(models, op[p].arg))
    /\ UNCHANGED <<variant, models, scanners, converters, op, loc, regd, ncalls, call>>

\* factory, ok := r.scanners[t]
GetScanner(p) ==
    /\ pc[p] = "cs"
    /\ op[p].name = "GetScanner"
    /\ ReturnR(p, IF op[p].arg \in DOMAIN scanners
                     THEN [err |-> NoErr, val |-> scanners[op[p].arg]]
                     ELSE Err("not found"))
    /\ UNCHANGED <<variant, models, scanners, converters, op, loc, regd, ncalls, call>>

\* converter, ok := r.converters[t]
GetConverter(p) ==
    /\ pc[p] = "cs"
    /\ op[p].name = "GetConverter"
    /\ ReturnR(p, IF op[p].arg \in DOMAIN converters
                     THEN [err |-> NoErr, val |-> converters[op[p].arg]]
                     ELSE Err("not found"))
    /\ UNCHANGED <<variant, models, scanners, converters, op, loc, regd, ncalls, call>>

Next ==
    \E p \in Procs :
        \/ Lock(p)
        \/ RLock(p)
        \/ RegisterCheck(p)
        \/ RegisterScanField(p)
        \/ RegisterCommit(p)
        \/ RegisterScanner(p)
        \/ RegisterConverter(p)
        \/ GetModelMetadata(p)
        \/ GetScanner(p)
        \/ GetConverter(p)

Spec == Init /\ [][Next]_vars

(***************************************************************************)
(* The lazy getModelMetadata of part_013 run by several goroutines at      *)
(* once: a lookup, on a miss one Register, then a second lookup.           *)
(* call.stage[p] is the statement goroutine p has reached, call.model[p]   *)
(* its argument and call.out[p] what it returned.                          *)
(***************************************************************************)
LazyTypes == {"TestModel", "PgModel", "BadDbModel"}

LazyIdle ==
    [name  |-> "getModelMetadata",
     stage |-> [p \in Procs |-> "start"],
     model |-> [p \in Procs |-> "none"],
     out   |-> [p \in Procs |-> NoRet]]

InitLazy ==
    /\ variant = "idempotent"
    /\ models = <<>>
    /\ scanners = <<>>
    /\ converters = <<>>
    /\ mu = [w |-> 0, r |-> {}]
    /\ pc = [p \in Procs |-> "idle"]
    /\ op = [p \in Procs |-> NoOp]
    /\ loc = [p \in Procs |-> NoLoc]
    /\ ret = [p \in Procs |-> NoRet]
    /\ regd = [p \in Procs |-> {}]
    /\ snap = [p \in Procs |-> NoSnap]
    /\ ncalls = 0
    /\ call = LazyIdle

\* metadata, err := defaultRegistry.GetModelMetadata(model): r.mu.RLock()
LazyLookup(p) ==
    /\ call.stage[p] = "start"
    /\ CanRLock
    /\ \E t \in LazyTypes :
        /\ op' = [op EXCEPT ![p] = [name |-> "GetModelMetadata", arg |-> t]]
        /\ call' = [call EXCEPT !.stage[p] = "first", !.model[p] = t]
    /\ pc' = [pc EXCEPT ![p] = "cs"]
    /\ mu' = [mu EXCEPT !.r = @ \cup {p}]
    /\ ret' = [ret EXCEPT ![p] = NoRet]
    /\ snap' = [snap EXCEPT ![p] = Registry]
    /\ UNCHANGED <<variant, models, scanners, converters, loc, regd, ncalls>>

\* errors.As(err, &notRegistered): defaultRegistry.Register(model), r.mu.Lock()
LazyRegister(p) ==
    /\ call.stage[p] = "first"
    /\ pc[p] = "done"
    /\ ret[p].err = NotRegistered(call.model[p])
    /\ CanLock
    /\ op' = [op EXCEPT ![p] = [name |-> "Register", arg |-> call.model[p]]]
    /\ call' = [call EXCEPT !.stage[p] = "register"]
    /\ pc' = [pc EXCEPT ![p] = "check"]
    /\ mu' = [mu EXCEPT !.w = p]
    /\ ret' = [ret EXCEPT ![p] = NoRet]
    /\ snap' = [snap EXCEPT ![p] = Registry]
    /\ UNCHANGED <<variant, models, scanners, converters, loc, regd, ncalls>>

\* Register has returned: "failed lazy-registering model" on its error,
\* otherwise the second defaultRegistry.GetModelMetadata(model).
LazyLookupAgain(p) ==
    /\ call.stage[p] = "register"
    /\ pc[p] = "done"
    /\ IF ret[p].err # NoErr
          THEN /\ call' = [call EXCEPT !.stage[p] = "returned",
                                       !.out[p] = Err("failed lazy-registering model")]
               /\ UNCHANGED <<op, pc, mu, ret, snap>>
          ELSE /\ CanRLock
               /\ op' = [op EXCEPT ![p] = [name |-> "GetModelMetadata", arg |-> call.model[p]]]
               /\ call' = [call EXCEPT !.stage[p] = "second"]
               /\ pc' = [pc EXCEPT ![p] = "cs"]
               /\ mu' = [mu EXCEPT !.r = @ \cup {p}]
               /\ ret' = [ret EXCEPT ![p] = NoRet]
               /\ snap' = [snap EXCEPT ![p] = Registry]
    /\ UNCHANGED <<variant, models, scanners, converters, loc, regd, ncalls>>

\* return metadata, nil after a lookup that found the model; an error of the
\* second lookup is wrapped.
LazyReturn(p) ==
    /\ call.stage[p] \in {"first", "second"}
    /\ pc[p] = "done"
    /\ call.stage[p] = "first" => ret[p].err # NotRegistered(call.model[p])
    /\ call' = [call EXCEPT
                  !.stage[p] = "returned",
                  !.out[p] = IF call.stage[p] = "second" /\ ret[p].err # NoErr
                                THEN Err("failed to get model metadata after lazy registration")
                                ELSE ret[p]]
    /\ UNCHANGED <<variant, models, scanners, converters, mu, pc, op, loc, ret, regd, snap, ncalls>>

NextLazy ==
    \E p \in Procs :
        \/ LazyLookup(p)
        \/ GetModelMetadata(p)
        \/ LazyRegister(p)
        \/ RegisterCheck(p)
        \/ RegisterScanField(p)
        \/ RegisterCommit(p)
        \/ LazyLookupAgain(p)
        \/ LazyReturn(p)

SpecLazy == InitLazy /\ [][NextLazy]_vars

(***************************************************************************)
(* Register run to completion under its lock, as the synchronous callers   *)
(* (Execute, ExecuteRaw, ExecuteUpdate) see it.                            *)
(***************************************************************************)
RECURSIVE ScanFields(_, _, _, _, _)
ScanFields(v, fs, i, md, convs) ==
    IF i > Len(fs) THEN [err |-> NoErr, md |-> md, converters |-> convs]
    ELSE IF fs[i].db = "" THEN [err |-> "missing required db tag", md |-> md, converters |-> convs]
    ELSE IF fs[i].json = "" THEN [err |-> "missing required json tag", md |-> md, converters |-> convs]
    ELSE ScanFields(v, fs, i + 1, AddField(md, fs[i]), AutoRegister(v, convs, fs[i].type))

\* Registry.Register(model) as one step: the error and the maps it leaves.
RegisterResult(v, ms, convs, t) ==
    LET stored(r) ==
            IF r.err = NoErr
               THEN [err |-> NoErr, models |-> Store(ms, t, r.md), converters |-> r.converters]
               ELSE [err |-> r.err, models |-> ms, converters |-> r.converters]
    IN IF IsRegistered(ms, t)
          THEN [err |-> AlreadyRegistered(v), models |-> ms, converters |-> convs]
          ELSE stored(ScanFields(v, StructFields(t), 1, EmptyMetadata(t), convs))

\* The package-level getModelMetadata: a plain lookup in registry.go, a
\* lookup followed by one lazy registration on a miss in part_013.
getModelMetadata(v, ms, convs, t) ==
    LET again(r, second) ==
            [err |-> second.err, val |-> second.val,
             models |-> r.models, converters |-> r.converters]
        lazy(r) ==
            IF r.err # NoErr
               THEN [err |-> "failed lazy-registering model", val |-> NoMetadata,
                     models |-> r.models, converters |-> r.converters]
               ELSE again(r, Lookup(r.models, t))
        found(first) ==
            IF first.err = NoErr \/ v = "strict"
               THEN [err |-> first.err, val |-> first.val, models |-> ms, converters |-> convs]
               ELSE lazy(RegisterResult(v, ms, convs, t))
    IN found(Lookup(ms, t))

(***************************************************************************)
(* Raw query pipeline (safequery.go).  A query text is a sequence of       *)
(* one-character strings.  "S" and "U" stand for the leading keyword of a  *)
(* SELECT and of an UPDATE statement.                                      *)
(***************************************************************************)
MaxFrags == 4

Digits == <<"0", "1", "2", "3", "4", "5", "6", "7", "8", "9">>

\* [a-zA-Z0-9_] and \w
WordChars == {"a", "b", "c", "S", "U", "_"} \cup {Digits[i] : i \in 1..10}

Placeholder(name) == <<"{", "{">> \o name \o <<"}", "}">>

\* strconv / fmt.Sprintf("%d", n) for n >= 0
RECURSIVE Itoa(_)
Itoa(n) == IF n < 10 THEN <<Digits[n + 1]>> ELSE Itoa(n \div 10) \o <<Digits[(n % 10) + 1]>>

HasPrefixAt(q, i, pre) ==
    /\ i + Len(pre) - 1 <= Len(q)
    /\ SubSeq(q, i, i + Len(pre) - 1) = pre

\* The end of the longest run of word characters of q that starts at i
\* (i - 1 when q[i] is no word character).
RECURSIVE WordEnd(_, _)
WordEnd(q, i) == IF i <= Len(q) /\ q[i] \in WordChars THEN WordEnd(q, i + 1) ELSE i - 1

\* A match of \{\{([a-zA-Z0-9_]+)\}\} that begins at position i of q.
MatchAt(q, i) ==
    LET e == WordEnd(q, i + 2)
    IN IF HasPrefixAt(q, i, <<"{", "{">>) /\ e >= i + 2 /\ HasPrefixAt(q, e + 1, <<"}", "}">>)
          THEN [ok |-> TRUE, name |-> SubSeq(q, i + 2, e), next |-> e + 3]
          ELSE [ok |-> FALSE, name |-> <<>>, next |-> i + 1]

\* regexp.FindAllStringSubmatch(query, -1): the captured names, leftmost
\* matches first, matches not overlapping.
RECURSIVE FindAllStringSubmatch(_, _)
FindAllStringSubmatch(q, i) ==
    IF i > Len(q) THEN <<>>
    ELSE LET m == MatchAt(q, i)
         IN IF m.ok THEN <<m.name>> \o FindAllStringSubmatch(q, m.next)
                    ELSE FindAllStringSubmatch(q, m.next)

Range(seq) == {seq[i] : i \in 1..Len(seq)}

DedupNone(names, seen) == names

\* The loop of ExtractNamedPlaceholders: names not seen before, in order.
RECURSIVE Dedup(_, _)
Dedup(names, seen) ==
    IF names = <<>> THEN <<>>
    ELSE IF Head(names) \in seen THEN Dedup(Tail(names), seen)
    ELSE <<Head(names)>> \o Dedup(Tail(names), seen \cup {Head(names)})

ExtractNamedPlaceholders(query) == Dedup(FindAllStringSubmatch(query, 1), {})

\* strings.ReplaceAll(q, old, new), old not empty
RECURSIVE ReplaceAll(_, _, _)
ReplaceAll(q, old, new) ==
    IF q = <<>> THEN <<>>
    ELSE IF HasPrefixAt(q, 1, old) THEN new \o ReplaceAll(SubSeq(q, Len(old) + 1, Len(q)), old, new)
    ELSE <<Head(q)>> \o ReplaceAll(Tail(q), old, new)

RECURSIVE ReplaceFrom(_, _, _)
ReplaceFrom(query, queryParams, i) ==
    IF i > Len(queryParams) THEN query
    ELSE ReplaceFrom(ReplaceAll(query, Placeholder(queryParams[i]), <<"$">> \o Itoa(i)),
                     queryParams, i + 1)

ReplaceNamedWithDollarPlaceholders(query, queryParams) == ReplaceFrom(query, queryParams, 1)

validateQueryParamsMissingOnly(query, paramMap) ==
    LET requiredParams == Range(FindAllStringSubmatch(query, 1))
        missingParams  == {n \in requiredParams : n \notin DOMAIN paramMap}
    IN IF missingParams # {}
          THEN [err |-> "parameter mismatch", missing |-> missingParams, extra |-> {}]
          ELSE [err |-> NoErr, missing |-> {}, extra |-> {}]

\* validateQueryParams: the missing and the extra parameter names
validateQueryParams(query, paramMap) ==
    LET requiredParams == Range(FindAllStringSubmatch(query, 1))
        missingParams  == {n \in requiredParams : n \notin DOMAIN paramMap}
        extraParams    == {n \in DOMAIN paramMap : n \notin requiredParams}
    IN IF missingParams # {} \/ extraParams # {}
          THEN [err |-> "parameter mismatch", missing |-> missingParams, extra |-> extraParams]
          ELSE [err |-> NoErr, missing |-> {}, extra |-> {}]

Nil == [t |-> "nil", v |-> "nil"]

\* reflect.TypeOf(val)
TypeOf(val) == val.t

\* The parameter struct P of the ExecuteRaw calls: db tag -> Go type.
ParamStruct == (<<"a">> :> "int64") @@ (<<"b">> :> "string") @@ (<<"c">> :> "interface {}")

isTypeCompatible(valType, expectedType) ==
    IF valType = "nil" \/ expectedType = "nil" THEN FALSE
    ELSE IF Kind(expectedType) = "interface" THEN TRUE
    ELSE valType = expectedType

\* The loop of ValidateMapParamsAgainstStructNamed over queryParams.
RECURSIVE CollectArgs(_, _, _, _)
CollectArgs(typeByName, paramMap, queryParams, args) ==
    IF queryParams = <<>> THEN [err |-> NoErr, args |-> args]
    ELSE LET p == Head(queryParams)
         IN IF p \notin DOMAIN typeByName THEN [err |-> "no type info for param", args |-> <<>>]
            ELSE IF p \notin DOMAIN paramMap
               THEN CollectArgs(typeByName, paramMap, Tail(queryParams), Append(args, Nil))
            ELSE IF ~isTypeCompatible(TypeOf(paramMap[p]), typeByName[p])
               THEN [err |-> "parameter type mismatch", args |-> <<>>]
            ELSE CollectArgs(typeByName, paramMap, Tail(queryParams), Append(args, paramMap[p]))

ValidateMapParamsAgainstStructNamed(paramMap, queryParams) ==
    CollectArgs(ParamStruct, paramMap, queryParams, <<>>)

\* Splits a text at every ";" into its segments.
RECURSIVE Split(_, _)
Split(q, cur) ==
    IF q = <<>> THEN <<cur>>
    ELSE IF Head(q) = ";" THEN <<cur>> \o Split(Tail(q), <<>>)
    ELSE Split(Tail(q), Append(cur, Head(q)))

StatementOK(seg) ==
    /\ seg[1] \in {"S", "U"}
    /\ \A i \in 2..Len(seg) : seg[i] \in {"a", "b", "c", "_", "$"} \cup {Digits[d] : d \in 1..10}

StatementKind(seg) == IF seg[1] = "S" THEN "select" ELSE "update"

\* pg_query.Parse(query): a syntax error, or the kinds of the statements of
\* the text in order (empty statements between separators are dropped).
Parse(query) ==
    LET segs == SelectSeq(Split(query, <<>>), LAMBDA seg : seg # <<>>)
    IN IF \E i \in 1..Len(segs) : ~StatementOK(segs[i])
          THEN [err |-> "syntax", stmts |-> <<>>]
          ELSE [err |-> NoErr, stmts |-> [i \in 1..Len(segs) |-> StatementKind(segs[i])]]

validateSQLSyntax(query) ==
    LET result == Parse(query)
    IN IF result.err # NoErr THEN "SQL syntax error"
       ELSE IF Len(result.stmts) = 0 THEN "empty SQL query"
       ELSE IF result.stmts[1] # "select" THEN "only SELECT statements are allowed"
       ELSE NoErr

\* A statement handed to the database handle and what the driver answers.
Dispatch(db, sql, args) == <<[sql |-> sql, args |-> args]>>

DriverErr(db) == IF db = "fail" THEN "failed to execute query" ELSE NoErr

ResultModel == "TestModel"

\* reflect.Value.FieldByName on a struct value: the field of that Go name,
\* or the invalid Value (no element) when the struct has none.
FieldByName(row, name) == IF name \in DOMAIN row THEN <<row[name]>> ELSE <<>>

\* The field a result map looks up in the scanned struct.
RowFieldName(field) == field.Name

\* One result map: for each metadata field that is requested (all of them
\* when SelectFields is empty) and found in the struct, its value under the
\* json name.
ResultMap(metadata, row, selectFields) ==
    LET wanted == { jsonName \in DOMAIN metadata.Fields :
                      /\ selectFields = <<>> \/ metadata.Fields[jsonName].Name \in Range(selectFields)
                      /\ FieldByName(row, RowFieldName(metadata.Fields[jsonName])) # <<>> }
    IN [jsonName \in wanted |-> FieldByName(row, RowFieldName(metadata.Fields[jsonName]))[1]]

\* ExecuteRaw[P, R](ctx, db, req): the error returned, the rewritten query,
\* the argument list, the statements sent to db, the rows scanned into
\* structs, the result maps made of them, and the registry maps.
ExecuteRawResult(v, ms, convs, db, req, rows) ==
    LET out(finalQuery, args, e, sent, m, c) ==
            [err |-> e, finalQuery |-> finalQuery, args |-> args, sent |-> sent,
             structResults |-> <<>>, results |-> <<>>, models |-> m, converters |-> c]
        execute(finalQuery, args, meta) ==
            IF meta.err # NoErr
               THEN out(finalQuery, args, meta.err, <<>>, meta.models, meta.converters)
            ELSE IF db = "unsupported"
               THEN out(finalQuery, args, "unsupported database type", <<>>,
                        meta.models, meta.converters)
            ELSE IF DriverErr(db) # NoErr
               THEN out(finalQuery, args, DriverErr(db), Dispatch(db, finalQuery, args),
                        meta.models, meta.converters)
            ELSE [out(finalQuery, args, NoErr, Dispatch(db, finalQuery, args),
                      meta.models, meta.converters)
                  EXCEPT !.structResults = rows,
                         !.results = [i \in 1..Len(rows) |->
                                        ResultMap(meta.val, rows[i], req.SelectFields)]]
        shaped(finalQuery, args, shape) ==
            IF shape # NoErr THEN out(finalQuery, args, shape, <<>>, ms, convs)
            ELSE execute(finalQuery, args, getModelMetadata(v, ms, convs, ResultModel))
        rewritten(finalQuery, typed) ==
            IF typed.err # NoErr THEN out(finalQuery, typed.args, typed.err, <<>>, ms, convs)
            ELSE shaped(finalQuery, typed.args, validateSQLSyntax(finalQuery))
        extracted(queryParams, check) ==
            IF check.err # NoErr
               THEN out(ReplaceNamedWithDollarPlaceholders(req.Query, queryParams), <<>>,
                        check.err, <<>>, ms, convs)
               ELSE rewritten(ReplaceNamedWithDollarPlaceholders(req.Query, queryParams),
                              ValidateMapParamsAgainstStructNamed(req.Params, queryParams))
    IN extracted(ExtractNamedPlaceholders(req.Query), validateQueryParams(req.Query, req.Params))

Fragments ==
    { Placeholder(<<"a">>), Placeholder(<<"b">>), <<"{">>, <<"S">>, <<"U">>, <<";">> }

RECURSIVE Texts(_)
Texts(n) ==
    IF n = 0 THEN {<<>>}
    ELSE LET shorter == Texts(n - 1)
         IN shorter \cup {f \o t : f \in Fragments, t \in shorter}

\* Every map from a subset of the names a, b to a value for that name, a
\* taking one of the given values.
ParamMaps(avalues) ==
    LET values == [ a |-> avalues, b |-> {[t |-> "string", v |-> "y"]} ]
    IN { pm \in UNION { [ks -> values.a \cup values.b] : ks \in SUBSET {<<"a">>, <<"b">>} } :
           \A k \in DOMAIN pm : pm[k] \in values[k[1]] }

RawParamMaps == ParamMaps({[t |-> "int64", v |-> "x"]})

\* The same with a of a type other than its declared int64: an int, as an
\* untyped Go constant gives, or a string.
RawTypedParamMaps ==
    ParamMaps({[t |-> "int64", v |-> "x"], [t |-> "int", v |-> "x"], [t |-> "string", v |-> "x"]})

\* SelectFields of a request: none, column names, a Go field name, a name
\* of no field.
RawSelectFields == {<<>>, <<"id">>, <<"name", "id">>, <<"ID">>, <<"nope">>}

RawRequests == [Query : Texts(MaxFrags), Params : RawParamMaps, SelectFields : {<<>>}]

\* Short queries with every choice of SelectFields and of parameter types.
RawShapedRequests ==
    [Query : Texts(2), Params : RawTypedParamMaps, SelectFields : RawSelectFields]

\* The rows the database answers, scanned into values of the result struct.
RowSets ==
    LET r1 == [ID |-> 1, Name |-> "ann", IsActive |-> TRUE]
        r2 == [ID |-> 2, Name |-> "bob", IsActive |-> FALSE]
    IN {<<>>, <<r1>>, <<r1, r2>>}

\* The registration policy, the registry and the database handle as a call
\* of an executor finds them: TestModel registered or not, and a handle
\* that answers, fails, or is of no supported type.
Registered == RegisterResult("strict", <<>>, <<>>, "TestModel").models

Environments ==
    { [variant |-> "strict",     models |-> Registered, db |-> "ok"],
      [variant |-> "strict",     models |-> Registered, db |-> "fail"],
      [variant |-> "strict",     models |-> Registered, db |-> "unsupported"],
      [variant |-> "strict",     models |-> <<>>,       db |-> "ok"],
      [variant |-> "idempotent", models |-> <<>>,       db |-> "ok"] }

InitQuiet ==
    /\ scanners = <<>>
    /\ converters = <<>>
    /\ mu = [w |-> 0, r |-> {}]
    /\ pc = [p \in Procs |-> "idle"]
    /\ op = [p \in Procs |-> NoOp]
    /\ loc = [p \in Procs |-> NoLoc]
    /\ ret = [p \in Procs |-> NoRet]
    /\ regd = [p \in Procs |-> {}]
    /\ snap = [p \in Procs |-> NoSnap]
    /\ ncalls = 0

InitCall(name, requests) ==
    /\ InitQuiet
    /\ \E env \in Environments, req \in requests :
          /\ variant = env.variant
          /\ models = env.models
          /\ call = [name |-> name, phase |-> "pending", db |-> env.db, req |-> req]

InitRaw == InitCall("ExecuteRaw", RawRequests) \/ InitCall("ExecuteRaw", RawShapedRequests)

ExecuteRaw ==
    /\ call.name = "ExecuteRaw"
    /\ call.phase = "pending"
    /\ LET none == ExecuteRawResult(variant, models, converters, call.db, call.req, <<>>)
       IN \E rows \in (IF none.err = NoErr THEN RowSets ELSE {<<>>}) :
             LET out == IF rows = <<>> THEN none
                        ELSE ExecuteRawResult(variant, models, converters, call.db, call.req, rows)
             IN /\ call' = [call EXCEPT !.phase = "done"] @@ [out |-> out]
                /\ models' = out.models
                /\ converters' = out.converters
    /\ UNCHANGED <<variant, scanners, mu, pc, op, loc, ret, regd, snap, ncalls>>

SpecRaw == InitRaw /\ [][ExecuteRaw]_vars

(***************************************************************************)
(* Structured requests (types.go, validator.go, update.go, builder.go).    *)
(* A Go value is its dynamic type, a payload and, for a slice, the values  *)
(* of its elements.  A *int is a sequence: empty for nil, else one number. *)
(***************************************************************************)
Val(t, v) == [t |-> t, v |-> v, elems |-> <<>>]

SliceVal(t, elems) == [t |-> t, v |-> "slice", elems |-> elems]

NilVal == Val("nil", "nil")

OpEqual == "="

OpNotEqual == "!="

OpGreaterThan == ">"

OpLessThan == "<"

OpGreaterThanOrEqual == ">="

OpLessThanOrEqual == "<="

OpLike == "LIKE"

OpILike == "ILIKE"

OpIn == "IN"

OpNotIn == "NOT IN"

OpIsNull == "IS NULL"

OpIsNotNull == "IS NOT NULL"

OpAny == "= ANY"

SelectAll == "ALL"

Condition(field, operator, value) == [Field |-> field, Operator |-> operator, Value |-> value]

\* reflect.Type.Elem() of a slice type
Elem(type) ==
    CASE type = "[]int64" -> "int64"
      [] type = "[]string" -> "string"
      [] OTHER -> "interface {}"

IsNumericType(t) == Kind(t) \in {"int", "int32", "int64", "float64"}

IsTimeType(t) == t = "time.Time"

AreTypesCompatibleExact(fieldType, valueType) == fieldType = valueType

AreTypesCompatible(fieldType, valueType) ==
    IF valueType = "nil" \/ fieldType = "nil" THEN FALSE
    ELSE IF Kind(fieldType) = "interface" THEN TRUE
    ELSE \/ Deref(fieldType) = Deref(valueType)
         \/ IsNumericType(Deref(fieldType)) /\ IsNumericType(Deref(valueType))
         \/ Kind(Deref(fieldType)) = "string" /\ Kind(Deref(valueType)) = "string"
         \/ IsTimeType(Deref(fieldType)) /\ IsTimeType(Deref(valueType))
         \/ Kind(Deref(fieldType)) = "bool" /\ Kind(Deref(valueType)) = "bool"

isValidOperator(oper) ==
    oper \in {OpEqual, OpNotEqual, OpGreaterThan, OpLessThan, OpGreaterThanOrEqual,
            OpLessThanOrEqual, OpLike, OpILike, OpIn, OpNotIn, OpIsNull, OpIsNotNull}

isOperatorCompatibleWithTypeOrderedAny(oper, fieldType) ==
    CASE oper \in {OpEqual, OpNotEqual, OpIsNull, OpIsNotNull} -> TRUE
      [] oper \in {OpGreaterThan, OpLessThan, OpGreaterThanOrEqual, OpLessThanOrEqual} -> TRUE
      [] oper \in {OpLike, OpILike} -> Kind(fieldType) = "string"
      [] oper \in {OpIn, OpNotIn} -> TRUE
      [] OTHER -> FALSE

isOperatorCompatibleWithTypeScalarNull(oper, fieldType) ==
    CASE oper \in {OpEqual, OpNotEqual} -> TRUE
      [] oper \in {OpIsNull, OpIsNotNull} -> Kind(fieldType) # "slice"
      [] oper \in {OpGreaterThan, OpLessThan, OpGreaterThanOrEqual, OpLessThanOrEqual} ->
            \/ Kind(fieldType) \in {"int", "int32", "int64", "float64", "string"}
            \/ fieldType = "time.Time"
      [] oper \in {OpLike, OpILike} -> Kind(fieldType) = "string"
      [] oper \in {OpIn, OpNotIn} -> TRUE
      [] OTHER -> FALSE

isOperatorCompatibleWithType(oper, fieldType) ==
    CASE oper \in {OpEqual, OpNotEqual, OpIsNull, OpIsNotNull} -> TRUE
      [] oper \in {OpGreaterThan, OpLessThan, OpGreaterThanOrEqual, OpLessThanOrEqual} ->
            \/ Kind(fieldType) \in {"int", "int32", "int64", "float64", "string"}
            \/ fieldType = "time.Time"
      [] oper \in {OpLike, OpILike} -> Kind(fieldType) = "string"
      [] oper \in {OpIn, OpNotIn} -> TRUE
      [] OTHER -> FALSE

validateConditionFirstElement(cond, metadata) ==
    IF cond.Field \notin DOMAIN metadata.Fields THEN "invalid field in where clause"
    ELSE LET field == metadata.Fields[cond.Field]
             valueType == TypeOf(cond.Value)
         IN IF ~isValidOperator(cond.Operator) THEN "unsupported operator"
            ELSE IF ~isOperatorCompatibleWithType(cond.Operator, field.NormalizedType)
               THEN "operator is not compatible with field type"
            ELSE IF cond.Operator \in {OpIsNull, OpIsNotNull}
               THEN IF cond.Value # NilVal
                       THEN "value must be nil for IS NULL/IS NOT NULL operators"
                       ELSE NoErr
            ELSE IF cond.Value = NilVal THEN NoErr
            ELSE IF cond.Operator \in {OpIn, OpNotIn}
               THEN IF Kind(valueType) # "slice" THEN "value for IN/NOT IN must be a slice"
                    ELSE IF Kind(Elem(valueType)) = "interface"
                       THEN IF \E i \in 1..Len(cond.Value.elems) :
                                  i = 1 /\ ~AreTypesCompatible(field.NormalizedType, TypeOf(cond.Value.elems[i]))
                               THEN "invalid type for field"
                               ELSE NoErr
                    ELSE IF ~AreTypesCompatible(field.NormalizedType, Elem(valueType))
                       THEN "invalid type for field"
                       ELSE NoErr
            ELSE IF ~AreTypesCompatible(field.NormalizedType, valueType)
               THEN "invalid type for field"
               ELSE NoErr

\* The checks of one WHERE condition in ValidateQuery and, word for word,
\* in ValidateUpdateRequest.
validateCondition(cond, metadata) ==
    IF cond.Field \notin DOMAIN metadata.Fields THEN "invalid field in where clause"
    ELSE LET field == metadata.Fields[cond.Field]
             valueType == TypeOf(cond.Value)
         IN IF ~isValidOperator(cond.Operator) THEN "unsupported operator"
            ELSE IF ~isOperatorCompatibleWithType(cond.Operator, field.NormalizedType)
               THEN "operator is not compatible with field type"
            ELSE IF cond.Operator \in {OpIsNull, OpIsNotNull}
               THEN IF cond.Value # NilVal
                       THEN "value must be nil for IS NULL/IS NOT NULL operators"
                       ELSE NoErr
            ELSE IF cond.Value = NilVal THEN NoErr
            ELSE IF cond.Operator \in {OpIn, OpNotIn}
               THEN IF Kind(valueType) # "slice" THEN "value for IN/NOT IN must be a slice"
                    ELSE IF Kind(Elem(valueType)) = "interface"
                       THEN IF \E i \in 1..Len(cond.Value.elems) :
                                  ~AreTypesCompatible(field.NormalizedType, TypeOf(cond.Value.elems[i]))
                               THEN "invalid type for field"
                               ELSE NoErr
                    ELSE IF ~AreTypesCompatible(field.NormalizedType, Elem(valueType))
                       THEN "invalid type for field"
                       ELSE NoErr
            ELSE IF ~AreTypesCompatible(field.NormalizedType, valueType)
               THEN "invalid type for field"
               ELSE NoErr

\* The first error in a sequence of results of checks, if there is one.
FirstErr(errs) ==
    LET bad == {i \in 1..Len(errs) : errs[i] # NoErr}
    IN IF bad = {} THEN NoErr
       ELSE errs[CHOOSE i \in bad : \A j \in bad : i <= j]

Then(e1, e2) == IF e1 # NoErr THEN e1 ELSE e2

ValidateQuery(req, metadata) ==
    IF Len(req.Select) = 0 THEN "select fields cannot be empty"
    ELSE Then(FirstErr([i \in 1..Len(req.Select) |->
                LET f == req.Select[i] IN
                IF f \in DOMAIN metadata.Fields THEN NoErr ELSE "invalid field in select"]),
         Then(FirstErr([i \in 1..Len(req.Where) |->
                LET c == req.Where[i] IN validateCondition(c, metadata)]),
         Then(FirstErr([i \in 1..Len(req.OrderBy) |->
                LET o == req.OrderBy[i] IN
                IF o.Field \in DOMAIN metadata.Fields THEN NoErr
                ELSE "invalid field in order by clause"]),
         IF req.Limit # <<>> /\ req.Limit[1] < 0 THEN "limit must be non-negative"
         ELSE IF req.Offset # <<>> /\ req.Offset[1] < 0 THEN "offset must be non-negative"
         ELSE NoErr)))

\* ValidateUpdateRequest; order is the order in which range visits req.Set.
ValidateUpdateRequest(req, metadata, order) ==
    IF DOMAIN req.Set = {} THEN "update request must include at least one field to update"
    ELSE Then(FirstErr([i \in 1..Len(order) |->
                LET jsonName == order[i]
                IN IF jsonName \notin DOMAIN metadata.Fields THEN "invalid field in update set"
                   ELSE IF /\ req.Set[jsonName] # NilVal
                           /\ ~AreTypesCompatible(metadata.Fields[jsonName].NormalizedType,
                                                  TypeOf(req.Set[jsonName]))
                      THEN "type mismatch for field"
                      ELSE NoErr]),
         IF Len(req.Where) = 0 THEN "update request must include where conditions"
         ELSE FirstErr([i \in 1..Len(req.Where) |->
                LET c == req.Where[i] IN validateCondition(c, metadata)]))

(***************************************************************************)
(* squirrel: a predicate is a column, a comparison and the bound value; a  *)
(* statement is a record of its clauses.                                   *)
(***************************************************************************)
Pred(col, cmp, val) == [col |-> col, cmp |-> cmp, val |-> val]

\* Pred.ToSql(): Lt, Gt, LtOrEq and GtOrEq take neither nil nor a slice.
PredErr(p) ==
    IF p.cmp \in {"Gt", "Lt", "GtOrEq", "LtOrEq"}
       THEN IF p.val = NilVal
               THEN "cannot use null with less than or greater than operators"
            ELSE IF Kind(TypeOf(p.val)) = "slice"
               THEN "cannot use array or slice with less than or greater than operators"
            ELSE NoErr
       ELSE NoErr

SqlizerNullCheckBinds(oper, col, val) ==
    CASE oper = OpEqual -> <<Pred(col, "Eq", val)>>
      [] oper = OpNotEqual -> <<Pred(col, "NotEq", val)>>
      [] oper = OpGreaterThan -> <<Pred(col, "Gt", val)>>
      [] oper = OpLessThan -> <<Pred(col, "Lt", val)>>
      [] oper = OpGreaterThanOrEqual -> <<Pred(col, "GtOrEq", val)>>
      [] oper = OpLessThanOrEqual -> <<Pred(col, "LtOrEq", val)>>
      [] oper = OpLike -> <<Pred(col, "Expr LIKE ?", val)>>
      [] oper = OpILike -> <<Pred(col, "Expr ILIKE ?", val)>>
      [] oper = OpIn -> <<Pred(col, "Eq", val)>>
      [] oper = OpNotIn -> <<Pred(col, "NotEq", val)>>
      [] oper = OpIsNull -> <<Pred(col, "Eq", val)>>
      [] oper = OpIsNotNull -> <<Pred(col, "NotEq", val)>>
      [] oper = OpAny -> <<Pred(col, "Expr ? = ANY", val)>>
      [] OTHER -> <<>>

\* The comparison the executors and builders add for an operator.
Sqlizer(oper, col, val) ==
    CASE oper = OpEqual -> <<Pred(col, "Eq", val)>>
      [] oper = OpNotEqual -> <<Pred(col, "NotEq", val)>>
      [] oper = OpGreaterThan -> <<Pred(col, "Gt", val)>>
      [] oper = OpLessThan -> <<Pred(col, "Lt", val)>>
      [] oper = OpGreaterThanOrEqual -> <<Pred(col, "GtOrEq", val)>>
      [] oper = OpLessThanOrEqual -> <<Pred(col, "LtOrEq", val)>>
      [] oper = OpLike -> <<Pred(col, "Expr LIKE ?", val)>>
      [] oper = OpILike -> <<Pred(col, "Expr ILIKE ?", val)>>
      [] oper = OpIn -> <<Pred(col, "Eq", val)>>
      [] oper = OpNotIn -> <<Pred(col, "NotEq", val)>>
      [] oper = OpIsNull -> <<Pred(col, "Eq", NilVal)>>
      [] oper = OpIsNotNull -> <<Pred(col, "NotEq", NilVal)>>
      [] oper = OpAny -> <<Pred(col, "Expr ? = ANY", val)>>
      [] OTHER -> <<>>

ToSqlCountUnchecked(stmt) ==
    IF stmt.kind = "update" /\ stmt.set = <<>>
       THEN "update statements must have at least one Set clause"
    ELSE IF stmt.kind = "select" /\ stmt.columns = <<>>
       THEN "select statements must have at least one result column"
    ELSE IF stmt.kind = "select" /\ stmt.columns = <<"COUNT(*)">> THEN NoErr
    ELSE FirstErr([i \in 1..Len(stmt.where) |-> PredErr(stmt.where[i])])

\* builder.ToSql(): no error, or the error of the first part that has one.
ToSql(stmt) ==
    IF stmt.kind = "update" /\ stmt.set = <<>>
       THEN "update statements must have at least one Set clause"
    ELSE IF stmt.kind = "select" /\ stmt.columns = <<>>
       THEN "select statements must have at least one result column"
    ELSE FirstErr([i \in 1..Len(stmt.where) |-> PredErr(stmt.where[i])])

(***************************************************************************)
(* update.go                                                               *)
(***************************************************************************)
NoStmt == [kind |-> "none"]

UpdateStmt(table, set, where) == [kind |-> "update", table |-> table, set |-> set, where |-> where]

\* len(req.Set) == 0
SetMissing(req) == DOMAIN req.Set = {}

WhereMissingNever(req) == FALSE

\* len(req.Where) == 0
WhereMissing(req) == Len(req.Where) = 0

\* The operators of the switch in buildUpdateQuery.
UpdateOperators ==
    {OpEqual, OpNotEqual, OpGreaterThan, OpLessThan, OpGreaterThanOrEqual,
     OpLessThanOrEqual, OpIn, OpNotIn, OpIsNull, OpIsNotNull}

updateSetEntry(req, metadata, jsonName) ==
    IF jsonName \notin DOMAIN metadata.Fields THEN "invalid field in update set"
    ELSE IF /\ req.Set[jsonName] # NilVal
            /\ ~AreTypesCompatible(metadata.Fields[jsonName].Type, TypeOf(req.Set[jsonName]))
       THEN "type mismatch for field"
       ELSE NoErr

updateWhereEntry(cond, metadata) ==
    IF cond.Field \notin DOMAIN metadata.Fields THEN "invalid field in update where"
    ELSE IF /\ cond.Value # NilVal
            /\ ~AreTypesCompatible(metadata.Fields[cond.Field].Type, TypeOf(cond.Value))
       THEN "type mismatch for where condition"
    ELSE IF cond.Operator \notin UpdateOperators THEN "unsupported operator"
    ELSE NoErr

\* The predicates of a condition list, each on the column of its field.
RECURSIVE Preds(_, _)
Preds(where, metadata) ==
    IF where = <<>> THEN <<>>
    ELSE LET cond == Head(where)
         IN Sqlizer(cond.Operator, metadata.Fields[cond.Field].Name, cond.Value)
               \o Preds(Tail(where), metadata)

\* buildUpdateQuery[T](req); order is the order in which range visits
\* req.Set.  Gives the error, the builder and the registry maps.
buildUpdateQuery(v, ms, convs, t, req, order) ==
    LET build(meta) ==
            LET out(e, q) ==
                    [err |-> e, query |-> q, models |-> meta.models, converters |-> meta.converters]
                where(whereErr) ==
                    IF whereErr # NoErr THEN out(whereErr, NoStmt)
                    ELSE out(NoErr, UpdateStmt(meta.val.TableName,
                                [i \in 1..Len(order) |->
                                    [col |-> meta.val.Fields[order[i]].Name,
                                     val |-> req.Set[order[i]]]],
                                Preds(req.Where, meta.val)))
                set(setErr) ==
                    IF setErr # NoErr THEN out(setErr, NoStmt)
                    ELSE IF WhereMissing(req)
                       THEN out("update request must include where conditions", NoStmt)
                    ELSE where(FirstErr([i \in 1..Len(req.Where) |->
                                  updateWhereEntry(req.Where[i], meta.val)]))
            IN IF meta.err # NoErr THEN out("failed to get model metadata", NoStmt)
               ELSE IF SetMissing(req)
                  THEN out("update request must include at least one field to update", NoStmt)
               ELSE set(FirstErr([i \in 1..Len(order) |->
                           updateSetEntry(req, meta.val, order[i])]))
    IN build(getModelMetadata(v, ms, convs, t))

\* ExecuteUpdate[T](ctx, db, req)
ExecuteUpdateResult(v, ms, convs, db, req, order) ==
    LET execute(built) ==
            LET out(e, sent) == [err |-> e, query |-> built.query, sent |-> sent,
                                 models |-> built.models, converters |-> built.converters]
            IN IF built.err # NoErr THEN out("failed to build update query", <<>>)
               ELSE IF ToSql(built.query) # NoErr THEN out("failed to generate update sql", <<>>)
               ELSE IF db = "unsupported" THEN out("unsupported database type", <<>>)
               ELSE out(IF db = "fail" THEN "failed to execute update" ELSE NoErr,
                        <<built.query>>)
    IN execute(buildUpdateQuery(v, ms, convs, ResultModel, req, order))

\* Every order in which the keys of a map can be visited.
RECURSIVE Orders(_)
Orders(keys) ==
    IF keys = {} THEN {<<>>}
    ELSE UNION { {<<k>> \o rest : rest \in Orders(keys \ {k})} : k \in keys }

Conditions ==
    LET values == { NilVal, Val("int", "25"), Val("string", "x"),
                    SliceVal("[]interface {}", <<Val("int", "1"), Val("string", "x")>>),
                    SliceVal("[]int64", <<Val("int64", "1"), Val("int64", "2")>>) }
        operators == {OpEqual, OpGreaterThan, OpLike, OpIn, OpIsNull, OpAny, "~"}
    IN { Condition(f, o, val) : f \in {"id", "name", "bogus"}, o \in operators, val \in values }

\* No condition, one condition, or one of a few pairs of conditions.
Wheres ==
    {<<>>} \cup {<<c>> : c \in Conditions}
           \cup { <<Condition("id", OpEqual, Val("int", "25")), c>> :
                    c \in {Condition("name", OpLike, Val("string", "x")),
                           Condition("bogus", OpEqual, Val("int", "25")),
                           Condition("id", OpGreaterThan, NilVal)} }

Sets ==
    UNION { [ks -> {NilVal, Val("string", "x"), Val("int", "25")}] : ks \in SUBSET {"name", "bogus"} }

UpdateRequests == [Set : Sets, Where : Wheres]

InitUpdate == InitCall("ExecuteUpdate", UpdateRequests)

ExecuteUpdate ==
    /\ call.name = "ExecuteUpdate"
    /\ call.phase = "pending"
    /\ \E order \in Orders(DOMAIN call.req.Set) :
          LET out == ExecuteUpdateResult(variant, models, converters, call.db, call.req, order)
          IN /\ call' = [call EXCEPT !.phase = "done"] @@ [order |-> order, out |-> out]
             /\ models' = out.models
             /\ converters' = out.converters
    /\ UNCHANGED <<variant, scanners, mu, pc, op, loc, ret, regd, snap, ncalls>>

SpecUpdate == InitUpdate /\ [][ExecuteUpdate]_vars

(***************************************************************************)
(* pagination.go                                                           *)
(***************************************************************************)
DefaultPageSize == 10

MaxPageSize == 100

PaginationRequest(page, pageSize) == [Page |-> page, PageSize |-> pageSize]

\* ValidatePagination(req) for a *PaginationRequest (empty sequence: nil)
ValidatePagination(req) ==
    IF req = <<>> THEN PaginationRequest(1, DefaultPageSize)
    ELSE LET page == IF req[1].Page < 1 THEN 1 ELSE req[1].Page
             size == IF req[1].PageSize < 1 THEN DefaultPageSize ELSE req[1].PageSize
         IN PaginationRequest(page, IF size > MaxPageSize THEN MaxPageSize ELSE size)

\* Go's int, scaled down to IntBits bits: two's complement, wrapping.
IntBits == 16

MaxInt == 2 ^ (IntBits - 1) - 1

MinInt == -(2 ^ (IntBits - 1))

Wrap(n) == ((n - MinInt) % (2 ^ IntBits)) + MinInt

CalculateOffset(page, pageSize) == Wrap(Wrap(page - 1) * pageSize)

\* CalculatePagination; int(math.Ceil(x)) of an infinite or NaN x, which is
\* what a page size of 0 gives, is whatever the platform makes of it: junk.
CalculatePagination(totalItems, pageSize, currentPage, junk) ==
    [Page |-> currentPage, PageSize |-> pageSize, TotalItems |-> totalItems,
     TotalPages |-> IF pageSize = 0 THEN junk
                    ELSE (totalItems + pageSize - 1) \div pageSize]

(***************************************************************************)
(* builder.go and the executor (part_008)                                  *)
(***************************************************************************)
SelectStmt(columns, table, where, orderBy, limit, offset) ==
    [kind |-> "select", columns |-> columns, table |-> table, where |-> where,
     orderBy |-> orderBy, limit |-> limit, offset |-> offset]

\* The operators of the switch in buildQuery.
BuildOperators ==
    {OpEqual, OpNotEqual, OpGreaterThan, OpLessThan, OpGreaterThanOrEqual,
     OpLessThanOrEqual, OpLike, OpILike, OpIn, OpNotIn, OpIsNull, OpIsNotNull, OpAny}

\* The operators of the switch that builds the count query in Execute.
CountOperators == BuildOperators \ {OpAny}

whereEntry(cond, metadata, operators) ==
    IF cond.Field \notin DOMAIN metadata.Fields THEN "invalid field in where clause"
    ELSE IF cond.Operator \notin operators THEN "unsupported operator"
    ELSE NoErr

OrderByTermAscending(clause, metadata) ==
    [col |-> metadata.Fields[clause.Field].Name, dir |-> "ASC"]

\* query.OrderBy(field.Name + " DESC") or query.OrderBy(field.Name + " ASC")
OrderByTerm(clause, metadata) ==
    [col |-> metadata.Fields[clause.Field].Name,
     dir |-> IF clause.Desc THEN "DESC" ELSE "ASC"]

\* buildQuery[T](req); fieldOrder is the order in which range visits
\* metadata.Fields.  Gives the error, the builder and the registry maps.
buildQuery(v, ms, convs, t, req, fieldOrder) ==
    LET build(meta) ==
            LET out(e, q) ==
                    [err |-> e, query |-> q, models |-> meta.models, converters |-> meta.converters]
                all == Len(req.Select) = 1 /\ req.Select[1] = SelectAll
                selectErr ==
                    IF all THEN NoErr
                    ELSE FirstErr([i \in 1..Len(req.Select) |->
                            IF req.Select[i] \in DOMAIN meta.val.Fields THEN NoErr
                            ELSE "invalid field in select"])
                selectFields ==
                    IF all THEN [i \in 1..Len(fieldOrder) |-> meta.val.Fields[fieldOrder[i]].Name]
                    ELSE [i \in 1..Len(req.Select) |-> meta.val.Fields[req.Select[i]].Name]
                orderBy == [i \in 1..Len(req.OrderBy) |-> OrderByTerm(req.OrderBy[i], meta.val)]
                order(orderErr) ==
                    IF orderErr # NoErr THEN out(orderErr, NoStmt)
                    ELSE IF req.Limit # <<>> /\ req.Limit[1] < 0
                       THEN out("limit must be non-negative", NoStmt)
                    ELSE IF req.Offset # <<>> /\ req.Offset[1] < 0
                       THEN out("offset must be non-negative", NoStmt)
                    ELSE out(NoErr, SelectStmt(selectFields, meta.val.TableName,
                                               Preds(req.Where, meta.val),
                                               orderBy, req.Limit, req.Offset))
                where(whereErr) ==
                    IF whereErr # NoErr THEN out(whereErr, NoStmt)
                    ELSE order(FirstErr([i \in 1..Len(req.OrderBy) |->
                                  IF req.OrderBy[i].Field \in DOMAIN meta.val.Fields THEN NoErr
                                  ELSE "invalid field in order by clause"]))
                select(err) ==
                    IF err # NoErr THEN out(err, NoStmt)
                    ELSE where(FirstErr([i \in 1..Len(req.Where) |->
                                  whereEntry(req.Where[i], meta.val, BuildOperators)]))
            IN IF meta.err # NoErr THEN out("failed to get model metadata", NoStmt)
               ELSE IF Len(req.Select) = 0 THEN out("select fields cannot be empty", NoStmt)
               ELSE select(selectErr)
    IN build(getModelMetadata(v, ms, convs, t))

\* Whether Execute asks the database for the total (part_008:68).
WantsTotal(req) == req.Pagination # <<>> \/ req.Limit # <<>> \/ req.Offset # <<>>

\* The count query Execute builds from req.Where (part_008:68-108): the
\* error of its loop over the conditions and the COUNT(*) builder.
countQuery(metadata, req) ==
    LET err == FirstErr([i \in 1..Len(req.Where) |->
                  whereEntry(req.Where[i], metadata, CountOperators)])
    IN [err |-> err,
        query |-> IF err # NoErr THEN NoStmt
                  ELSE SelectStmt(<<"COUNT(*)">>, metadata.TableName,
                                  Preds(req.Where, metadata), <<>>, <<>>, <<>>)]

Panic == "panic: runtime error: integer divide by zero"

\* Execute[T](ctx, db, req); total is the count the database answers.
\* Gives the error, the statements sent to db in order, the pagination
\* metadata (empty sequence: nil) and the registry maps.
ExecuteResult(v, ms, convs, db, req, total, fieldOrder, junk) ==
    LET out(e, sent, pg, m, c) ==
            [err |-> e, sent |-> sent, pagination |-> pg, models |-> m, converters |-> c]
        \* lines 146-186: the main query
        main(built, sent, pg) ==
            IF ToSql(built.query) # NoErr
               THEN out("failed to generate sql", sent, <<>>, built.models, built.converters)
            ELSE IF db = "unsupported"
               THEN out("unsupported database type", sent, <<>>, built.models, built.converters)
            ELSE IF db = "fail"
               THEN out("failed to execute query", Append(sent, built.query), <<>>,
                        built.models, built.converters)
            ELSE out(NoErr, Append(sent, built.query), pg, built.models, built.converters)
        \* lines 134-143: the pagination metadata
        paginationResp(req2) ==
            IF req.Pagination # <<>>
               THEN <<CalculatePagination(total, req2.Pagination[1].PageSize,
                                          req2.Pagination[1].Page, junk)>>
            ELSE IF req2.Limit # <<>>
               THEN <<CalculatePagination(total, req2.Limit[1],
                         IF req2.Offset # <<>> THEN (req2.Offset[1] \div req2.Limit[1]) + 1 ELSE 1,
                         junk)>>
            ELSE <<>>
        \* lines 110-132: the count query
        count(req2, built, countStmt) ==
            IF ToSql(countStmt) # NoErr
               THEN out("failed to generate count sql", <<>>, <<>>, built.models, built.converters)
            ELSE IF db = "unsupported"
               THEN out("unsupported database type", <<>>, <<>>, built.models, built.converters)
            ELSE IF db = "fail"
               THEN out("failed to get total count", <<countStmt>>, <<>>,
                        built.models, built.converters)
            ELSE IF /\ req.Pagination = <<>> /\ req2.Limit # <<>> /\ req2.Offset # <<>>
                    /\ req2.Limit[1] = 0
               THEN out(Panic, <<countStmt>>, <<>>, built.models, built.converters)
            ELSE main(built, <<countStmt>>, paginationResp(req2))
        \* lines 68-108: the conditions of the count query
        counted(metadata, req2, built, counting) ==
            IF counting.err # NoErr
               THEN out(counting.err, <<>>, <<>>, built.models, built.converters)
               ELSE count(req2, built, counting.query)
        \* lines 61-68
        queried(metadata, req2, built) ==
            IF built.err # NoErr
               THEN out("failed to build query", <<>>, <<>>, built.models, built.converters)
            ELSE IF ~WantsTotal(req2)
               THEN main(built, <<>>, <<>>)
            ELSE counted(metadata, req2, built, countQuery(metadata, req2))
        \* lines 43-59
        normalized(page) ==
            IF req.Pagination # <<>>
               THEN [req EXCEPT !.Pagination = <<page>>,
                                !.Limit = <<page.PageSize>>,
                                !.Offset = <<CalculateOffset(page.Page, page.PageSize)>>]
               ELSE req
        built(meta, req2) ==
            queried(meta.val, req2,
                    buildQuery(v, meta.models, meta.converters, ResultModel, req2, fieldOrder))
        validated(meta, valid) ==
            IF valid # NoErr
               THEN out("failed to validate query", <<>>, <<>>, meta.models, meta.converters)
               ELSE built(meta, normalized(ValidatePagination(req.Pagination)))
        found(meta) ==
            IF meta.err # NoErr
               THEN out("failed to get model metadata", <<>>, <<>>, meta.models, meta.converters)
               ELSE validated(meta, ValidateQuery(req, meta.val))
    IN found(getModelMetadata(v, ms, convs, ResultModel))

OrderByClause(field, desc) == [Field |-> field, Desc |-> desc]

Selects == { <<>>, <<SelectAll>>, <<"id", "name">>, <<"bogus">> }

OrderBys ==
    { <<>>, <<OrderByClause("name", FALSE), OrderByClause("id", TRUE)>>,
      <<OrderByClause("bogus", FALSE)>> }

Pagings ==
    LET Paging(pagination, limit, offset) ==
            [Pagination |-> pagination, Limit |-> limit, Offset |-> offset]
    IN { Paging(<<>>, <<>>, <<>>),
         Paging(<<>>, <<5>>, <<>>),
         Paging(<<>>, <<5>>, <<10>>),
         Paging(<<>>, <<0>>, <<>>),
         Paging(<<>>, <<0>>, <<3>>),
         Paging(<<>>, <<-1>>, <<>>),
         Paging(<<>>, <<>>, <<-1>>),
         Paging(<<>>, <<>>, <<3>>),
         Paging(<<PaginationRequest(0, 0)>>, <<>>, <<>>),
         Paging(<<PaginationRequest(2, 500)>>, <<7>>, <<1>>),
         Paging(<<PaginationRequest(2, 20)>>, <<-1>>, <<>>),
         Paging(<<PaginationRequest(MaxInt, 100)>>, <<>>, <<>>),
         Paging(<<PaginationRequest(3, 20)>>, <<>>, <<>>) }

QueryRequests ==
    { [Select |-> s, Where |-> w, OrderBy |-> o,
       Pagination |-> p.Pagination, Limit |-> p.Limit, Offset |-> p.Offset] :
         s \in Selects, w \in Wheres, o \in OrderBys, p \in Pagings }

\* What the count query may answer.
Totals == {0, 45}

\* What int() may give for a float that no int holds.
Junk == {-1, 0}

\* Bound on the page numbers tried around zero.
MaxPage == 3

Pages == (-1..MaxPage) \cup {MaxInt - 1, MaxInt, MinInt}

PageSizes ==
    (-1..2) \cup {DefaultPageSize, MaxPageSize - 1, MaxPageSize, MaxPageSize + 1, MaxInt, MinInt}

\* A *PaginationRequest: nil or a page and a page size.
PaginationRequests == {<<>>} \cup {<<PaginationRequest(p, n)>> : p \in Pages, n \in PageSizes}

InitPagination ==
    /\ InitQuiet
    /\ variant = "strict"
    /\ models = <<>>
    /\ \E req \in PaginationRequests, total \in Totals :
          call = [name |-> "ValidatePagination", phase |-> "pending", db |-> "ok",
                  req |-> req, total |-> total]

\* p := ValidatePagination(req); offset := CalculateOffset(p.Page, p.PageSize);
\* resp := CalculatePagination(total, p.PageSize, p.Page)
Paginate ==
    /\ call.name = "ValidatePagination"
    /\ call.phase = "pending"
    /\ LET p == ValidatePagination(call.req)
       IN call' = [call EXCEPT !.phase = "done"]
                    @@ [out |-> [err |-> NoErr, page |-> p,
                                 offset |-> CalculateOffset(p.Page, p.PageSize),
                                 resp |-> CalculatePagination(call.total, p.PageSize, p.Page, 0)]]
    /\ UNCHANGED <<variant, models, scanners, converters, mu, pc, op, loc, ret, regd, snap, ncalls>>

SpecPagination == InitPagination /\ [][Paginate]_vars

InitExecute == InitCall("Execute", QueryRequests)

Execute ==
    /\ call.name = "Execute"
    /\ call.phase = "pending"
    /\ \E total \in Totals,
          junk \in (IF call.req.Limit = <<0>> THEN Junk ELSE {0}),
          fieldOrder \in (IF call.req.Select = <<SelectAll>>
                            THEN Orders({"id", "name", "is_active"})
                            ELSE {<<>>}) :
          LET out == ExecuteResult(variant, models, converters, call.db, call.req,
                                   total, fieldOrder, junk)
          IN /\ call' = [call EXCEPT !.phase = "done"] @@ [out |-> out]
             /\ models' = out.models
             /\ converters' = out.converters
    /\ UNCHANGED <<variant, scanners, mu, pc, op, loc, ret, regd, snap, ncalls>>

InitCalls == InitRaw \/ InitUpdate \/ InitExecute

NextCalls == ExecuteRaw \/ ExecuteUpdate \/ Execute

SpecCalls == InitCalls /\ [][NextCalls]_vars

(***************************************************************************)
(* buildQuery and buildUpdateQuery called on their own and rendered with   *)
(* ToSql, as builder_test.go and part_003 do.  A text is the sequence of   *)
(* its tokens; the bound values are kept apart in the argument list.       *)
(***************************************************************************)
\* How many times a request is built.
MaxBuilds == 2

\* squirrel.Dollar: the k-th placeholder of a statement
Dollar(k) == "$" \o ToString(k)

\* The text, with ? for each placeholder, and the arguments of a predicate.
PredSql(p) ==
    LET text(tokens, args) == [sql |-> tokens, args |-> args]
        marks(n) == [i \in 1..(2 * n - 1) |-> IF i % 2 = 1 THEN "?" ELSE ","]
        equality(same, null, member, none) ==
            IF p.val = NilVal THEN text(<<p.col, null>>, <<>>)
            ELSE IF Kind(TypeOf(p.val)) = "slice"
               THEN IF p.val.elems = <<>> THEN text(<<none>>, <<>>)
                    ELSE text(<<p.col, member, "(">> \o marks(Len(p.val.elems)) \o <<")">>,
                              p.val.elems)
            ELSE text(<<p.col, same, "?">>, <<p.val>>)
    IN CASE p.cmp = "Eq" -> equality("=", "IS NULL", "IN", "(1=0)")
         [] p.cmp = "NotEq" -> equality("<>", "IS NOT NULL", "NOT IN", "(1=1)")
         [] p.cmp = "Gt" -> text(<<p.col, ">", "?">>, <<p.val>>)
         [] p.cmp = "Lt" -> text(<<p.col, "<", "?">>, <<p.val>>)
         [] p.cmp = "GtOrEq" -> text(<<p.col, ">=", "?">>, <<p.val>>)
         [] p.cmp = "LtOrEq" -> text(<<p.col, "<=", "?">>, <<p.val>>)
         [] p.cmp = "Expr LIKE ?" -> text(<<p.col, "LIKE", "?">>, <<p.val>>)
         [] p.cmp = "Expr ILIKE ?" -> text(<<p.col, "ILIKE", "?">>, <<p.val>>)
         [] p.cmp = "Expr ? = ANY" -> text(<<"?", "= ANY(", p.col, ")">>, <<p.val>>)

\* The predicates of a WHERE clause joined by AND.
RECURSIVE WhereSql(_)
WhereSql(preds) ==
    IF preds = <<>> THEN [sql |-> <<>>, args |-> <<>>]
    ELSE LET first == PredSql(Head(preds))
             rest == WhereSql(Tail(preds))
         IN [sql |-> first.sql \o (IF Tail(preds) = <<>> THEN <<>> ELSE <<"AND">>) \o rest.sql,
             args |-> first.args \o rest.args]

\* squirrel.Dollar.ReplacePlaceholders: the k-th ? becomes $k, k counted
\* from the n placeholders before the text.
RECURSIVE ReplacePlaceholders(_, _)
ReplacePlaceholders(tokens, n) ==
    IF tokens = <<>> THEN <<>>
    ELSE IF Head(tokens) = "?" THEN <<Dollar(n + 1)>> \o ReplacePlaceholders(Tail(tokens), n + 1)
    ELSE <<Head(tokens)>> \o ReplacePlaceholders(Tail(tokens), n)

\* SelectBuilder.ToSql(): the error, the text clause by clause and the
\* arguments.
SelectToSql(stmt) ==
    LET where == WhereSql(stmt.where)
    IN IF ToSql(stmt) # NoErr THEN [err |-> ToSql(stmt), sql |-> <<>>, args |-> <<>>]
       ELSE [err |-> NoErr,
             sql |-> [columns |-> stmt.columns, from |-> stmt.table,
                      where |-> ReplacePlaceholders(where.sql, 0),
                      orderBy |-> [i \in 1..Len(stmt.orderBy) |->
                                     stmt.orderBy[i].col \o " " \o stmt.orderBy[i].dir],
                      limit |-> stmt.limit, offset |-> stmt.offset],
             args |-> where.args]

\* UpdateBuilder.ToSql(): the SET assignments in the order of the Set
\* calls, then the WHERE clause.
UpdateToSql(stmt) ==
    LET where == WhereSql(stmt.where)
    IN IF ToSql(stmt) # NoErr THEN [err |-> ToSql(stmt), sql |-> <<>>, args |-> <<>>]
       ELSE [err |-> NoErr,
             sql |-> [table |-> stmt.table,
                      set |-> [i \in 1..Len(stmt.set) |-> <<stmt.set[i].col, "=", Dollar(i)>>],
                      where |-> ReplacePlaceholders(where.sql, Len(stmt.set))],
             args |-> [i \in 1..Len(stmt.set) |-> stmt.set[i].val] \o where.args]

NotBuilt == [err |-> "not built", sql |-> <<>>, args |-> <<>>]

\* Update requests whose Set map has two entries, both naming fields of the model.
TwoFieldUpdateRequests ==
    [Set : [{"name", "is_active"} -> {NilVal, Val("string", "x")}],
     Where : {<<Condition("id", OpEqual, Val("int", "25"))>>}]

InitBuild ==
    /\ InitQuiet
    /\ variant = "strict"
    /\ models = Registered
    /\ \/ \E req \in QueryRequests :
             call = [name |-> "buildQuery", phase |-> "pending", db |-> "ok", req |-> req,
                     builds |-> 0]
       \/ \E req \in UpdateRequests \cup TwoFieldUpdateRequests :
             call = [name |-> "buildUpdateQuery", phase |-> "pending", db |-> "ok", req |-> req,
                     builds |-> 0]

\* query, err := buildQuery[T](req); sql, args, err := query.ToSql()
CallBuildQuery ==
    /\ call.name = "buildQuery"
    /\ call.builds < MaxBuilds
    /\ \E fieldOrder \in (IF call.req.Select = <<SelectAll>>
                            THEN Orders({"id", "name", "is_active"})
                            ELSE {<<>>}) :
          LET built == buildQuery(variant, models, converters, ResultModel, call.req, fieldOrder)
          IN call' = [name |-> call.name, phase |-> "done", db |-> call.db, req |-> call.req,
                      builds |-> call.builds + 1,
                      out |-> [err |-> built.err, query |-> built.query,
                               text |-> IF built.err = NoErr THEN SelectToSql(built.query)
                                        ELSE NotBuilt]]
    /\ UNCHANGED <<variant, models, scanners, converters, mu, pc, op, loc, ret, regd, snap, ncalls>>

\* query, err := buildUpdateQuery[T](req); sql, args, err := query.ToSql()
CallBuildUpdateQuery ==
    /\ call.name = "buildUpdateQuery"
    /\ call.builds < MaxBuilds
    /\ \E order \in Orders(DOMAIN call.req.Set) :
          LET built == buildUpdateQuery(variant, models, converters, ResultModel, call.req, order)
          IN call' = [name |-> call.name, phase |-> "done", db |-> call.db, req |-> call.req,
                      builds |-> call.builds + 1,
                      out |-> [err |-> built.err, query |-> built.query,
                               text |-> IF built.err = NoErr THEN UpdateToSql(built.query)
                                        ELSE NotBuilt]]
    /\ UNCHANGED <<variant, models, scanners, converters, mu, pc, op, loc, ret, regd, snap, ncalls>>

NextBuild == CallBuildQuery \/ CallBuildUpdateQuery

SpecBuild == InitBuild /\ [][NextBuild]_vars

(***************************************************************************)
(* Register called on its own, one record type after the other.            *)
(***************************************************************************)
\* The record types handed to Register: the ones above, and two in which
\* two fields share a json tag or a db tag.
RegisterTypes == ModelTypes \cup {"ArrayTestModel", "EventModel", "DupJsonModel", "DupDbModel"}

InitRegister ==
    /\ InitQuiet
    /\ variant \in {"strict", "idempotent"}
    /\ models = <<>>
    /\ call = Idle

\* err := registry.Register(model)
RegisterModel ==
    \E t \in RegisterTypes :
       LET r == RegisterResult(variant, models, converters, t)
       IN /\ call' = [name |-> "Register", phase |-> "done", model |-> t, out |-> [err |-> r.err]]
          /\ models' = r.models
          /\ converters' = r.converters
          /\ UNCHANGED <<variant, scanners, mu, pc, op, loc, ret, regd, snap, ncalls>>

SpecRegister == InitRegister /\ [][RegisterModel]_vars

(***************************************************************************)
(* The validator called on its own (validator_test.go, array_test.go): a   *)
(* model is registered, its metadata is looked up and one request is       *)
(* validated against it.                                                   *)
(***************************************************************************)
OpContains == "@>"

ValidatorModels == {"ValidatorTestModel", "ArrayTestModel", "EventModel"}

JSONNames(t) == {StructFields(t)[i].json : i \in 1..Len(StructFields(t))}

ValidatorValues ==
    { NilVal, Val("int", "25"), Val("string", "x"), Val("bool", "true"),
      Val("time.Time", "2024-01-01"),
      SliceVal("[]interface {}", <<>>),
      SliceVal("[]interface {}", <<Val("int", "1"), Val("string", "x")>>),
      SliceVal("[]int64", <<Val("int64", "20"), Val("int64", "30")>>),
      SliceVal("[]string", <<Val("string", "a")>>) }

ValidatorOperators ==
    {OpEqual, OpNotEqual, OpGreaterThan, OpLessThan, OpGreaterThanOrEqual,
     OpLessThanOrEqual, OpLike, OpILike, OpIn, OpNotIn, OpIsNull, OpIsNotNull,
     OpAny, OpContains, "~"}

ValidatorConditions(t) ==
    { Condition(f, o, val) :
        f \in JSONNames(t) \cup {"bogus"}, o \in ValidatorOperators, val \in ValidatorValues }

\* No condition, one condition, or a condition after or before a good one.
ValidatorWheres(t) ==
    {<<>>} \cup {<<c>> : c \in ValidatorConditions(t)}
           \cup { <<Condition("id", OpEqual, Val("int", "25")), c>> :
                    c \in {Condition("name", OpLike, Val("string", "x")),
                           Condition("name", OpIsNull, Val("string", "x")),
                           Condition("bogus", OpEqual, Val("int", "25"))} }
           \cup { <<Condition("id", OpLike, Val("int", "25")),
                    Condition("name", OpEqual, Val("string", "x"))>> }

ValidatorQueryRequests(t) ==
    { [Select |-> s, Where |-> w, OrderBy |-> o,
       Pagination |-> <<>>, Limit |-> p[1], Offset |-> p[2]] :
         s \in Selects, w \in ValidatorWheres(t), o \in OrderBys,
         p \in { <<<<>>, <<>>>>, <<<<5>>, <<0>>>>, <<<<-1>>, <<>>>>, <<<<>>, <<-1>>>> } }

ValidatorUpdateRequests(t) ==
    [Set : { <<>>, [k \in {"name"} |-> Val("string", "x")],
             [k \in {"name", "id"} |-> IF k = "id" THEN Val("string", "x") ELSE NilVal] },
     Where : ValidatorWheres(t)]

\* Register[T]() on a new registry, then a call about to run on T's metadata.
InitValidate ==
    /\ variant \in {"strict", "idempotent"}
    /\ scanners = <<>>
    /\ mu = [w |-> 0, r |-> {}]
    /\ pc = [p \in Procs |-> "idle"]
    /\ op = [p \in Procs |-> NoOp]
    /\ loc = [p \in Procs |-> NoLoc]
    /\ ret = [p \in Procs |-> NoRet]
    /\ regd = [p \in Procs |-> {}]
    /\ snap = [p \in Procs |-> NoSnap]
    /\ ncalls = 0
    /\ \E t \in ValidatorModels :
          /\ models = RegisterResult(variant, <<>>, <<>>, t).models
          /\ converters = RegisterResult(variant, <<>>, <<>>, t).converters
          /\ \/ \E req \in ValidatorQueryRequests(t) :
                   call = [name |-> "ValidateQuery", phase |-> "pending", db |-> "ok",
                           model |-> t, req |-> req]
             \/ \E req \in ValidatorUpdateRequests(t) :
                   call = [name |-> "ValidateUpdateRequest", phase |-> "pending", db |-> "ok",
                           model |-> t, req |-> req]

\* metadata, _ := getModelMetadata(model); err = validator.ValidateQuery(req, metadata)
CallValidateQuery ==
    /\ call.name = "ValidateQuery"
    /\ call.phase = "pending"
    /\ call' = [call EXCEPT !.phase = "done"]
                  @@ [out |-> [err |-> ValidateQuery(call.req, Lookup(models, call.model).val)]]
    /\ UNCHANGED <<variant, models, scanners, converters, mu, pc, op, loc, ret, regd, snap, ncalls>>

\* err = validator.ValidateUpdateRequest(req, metadata)
CallValidateUpdateRequest ==
    /\ call.name = "ValidateUpdateRequest"
    /\ call.phase = "pending"
    /\ \E order \in Orders(DOMAIN call.req.Set) :
          call' = [call EXCEPT !.phase = "done"]
                    @@ [order |-> order,
                        out |-> [err |-> ValidateUpdateRequest(call.req,
                                            Lookup(models, call.model).val, order)]]
    /\ UNCHANGED <<variant, models, scanners, converters, mu, pc, op, loc, ret, regd, snap, ncalls>>

NextValidate == CallValidateQuery \/ CallValidateUpdateRequest

SpecValidate == InitValidate /\ [][NextValidate]_vars

(***************************************************************************)
(* Registry claims                                                         *)
(***************************************************************************)
InCS(p) == pc[p] \in {"check", "scan", "commit", "cs"}

InRegister(p) == op[p].name = "Register" /\ pc[p] \in {"check", "scan", "commit"}

Writing(p) == InCS(p) /\ op[p] \in WriteCalls

Reading(p) == InCS(p) /\ op[p] \in ReadCalls

Returned(p, name) == pc[p] = "done" /\ op[p].name = name

TagErrors == {"missing required db tag", "missing required json tag"}

\* One Field per struct field of record type t, under the table name of t.
CompleteMetadata(t) ==
    LET fs == StructFields(t)
        tags == {fs[i].json : i \in 1..Len(fs)}
    IN [TableName |-> TableName(t),
        Fields |-> [j \in tags |-> Field(CHOOSE f \in {fs[i] : i \in 1..Len(fs)} : f.json = j)]]

\* C6: a Register call for a record type that is already registered leaves
\* the stored metadata of that type as it was (GetModelMetadata returns the
\* same table name and field map before and after it) and returns nil under
\* the idempotent policy, the "already registered" error under the strict one.
C6_ReRegisterKeepsFirst ==
    [][\A p \in Procs :
         (InRegister(p) /\ op[p].arg \in DOMAIN snap[p].models) =>
             /\ Lookup(models', op[p].arg) = Lookup(snap[p].models, op[p].arg)
             /\ pc'[p] = "done" =>
                  ret'[p].err = (IF variant = "strict" THEN "already registered" ELSE NoErr)]_vars

C6_Witness ==
    \E p \in Procs :
        /\ Returned(p, "Register")
        /\ ret[p].err = "already registered"
        /\ Lookup(models, op[p].arg).err = NoErr

\* C7: every Register of a valid model returns no error, also when several
\* goroutines register the same model, and a GetModelMetadata that a
\* goroutine issues after its own Register returned succeeds with the
\* model's table name.
C7_ConcurrentRegisterSucceeds ==
    \A p \in Procs :
        /\ (Returned(p, "Register") /\ op[p].arg \in ValidModels) => ret[p].err = NoErr
        /\ (Returned(p, "GetModelMetadata") /\ op[p].arg \in regd[p] \cap ValidModels) =>
               (ret[p].err = NoErr /\ ret[p].val.TableName = TableName(op[p].arg))

\* C8: a write method is never inside its critical section together with
\* another write or with a read, and a lookup returns either "not
\* registered" or the complete metadata of the record type.
C8_WritersExclusive ==
    /\ \A p, q \in Procs : (p # q /\ Writing(p)) => ~InCS(q)
    /\ \A t \in DOMAIN models : models[t] = CompleteMetadata(t)
    /\ \A p \in Procs :
          Returned(p, "GetModelMetadata") =>
              \/ ret[p] = [err |-> NotRegistered(op[p].arg), val |-> NoMetadata]
              \/ ret[p] = [err |-> NoErr, val |-> CompleteMetadata(op[p].arg)]

\* Two lookups overlap while the registry holds a registered model.
C8_Witness ==
    \E p, q \in Procs :
        /\ p # q
        /\ Reading(p)
        /\ Reading(q)
        /\ op[p].name = "GetModelMetadata"
        /\ op[p].arg \in DOMAIN models

\* C9: an entry of r.models is never removed or overwritten, entries are
\* added only by Register, and metadata that GetModelMetadata has returned
\* for a record type is what every later lookup of that type finds.
C9_MetadataImmutable ==
    [][/\ \A t \in DOMAIN models : t \in DOMAIN models' /\ models'[t] = models[t]
       /\ models' # models => \E p \in Procs : InRegister(p) /\ pc'[p] = "done"
       /\ \A p \in Procs :
             (pc'[p] = "done" /\ op'[p].name = "GetModelMetadata" /\ ret'[p].err = NoErr) =>
                 Lookup(models', op'[p].arg) = ret'[p]]_vars

\* A lookup of one model has returned its metadata and a second model has
\* been registered since.
C9_Witness ==
    \E p \in Procs :
        /\ Returned(p, "GetModelMetadata")
        /\ ret[p].err = NoErr
        /\ DOMAIN models = ValidModels
        /\ \E q \in Procs : q # p /\ Returned(q, "Register") /\ op[q].arg # op[p].arg
                            /\ ret[q].err = NoErr

\* C10: a Register call that fails on a missing db or json tag returns with
\* models, scanners and converters exactly as they were when it was called.
C10_FailedRegisterLeavesRegistry ==
    [][\A p \in Procs :
         (InRegister(p) /\ pc'[p] = "done" /\ ret'[p].err \in TagErrors) =>
             [models |-> models', scanners |-> scanners', converters |-> converters'] = snap[p]]_vars

\* C11: GetModelMetadata for a record type that has no entry in r.models
\* (no Register of it has succeeded) returns the empty ModelMetadata and the
\* error 'model <TypeName> not registered' and leaves models, scanners and
\* converters as they were; a record type whose Register fails on a tag
\* never gets an entry.
C11_UnregisteredLookupFails ==
    [][/\ \A t \in DOMAIN models' : t \in ValidModels
       /\ \A p \in Procs :
             (pc[p] = "cs" /\ op[p].name = "GetModelMetadata" /\ pc'[p] = "done"
                /\ op[p].arg \notin DOMAIN models) =>
                 /\ ret'[p].val = [TableName |-> "", Fields |-> <<>>]
                 /\ ret'[p].err = "model " \o op[p].arg \o " not registered"
                 /\ ret'[p].err # NoErr
                 /\ [models |-> models', scanners |-> scanners', converters |-> converters']
                       = Registry]_vars

\* A lookup of a record type fails after a Register of that type has failed
\* on a missing tag.
C11_Witness ==
    \E p, q \in Procs :
        /\ Returned(p, "GetModelMetadata")
        /\ op[p].arg = "BadDbModel"
        /\ ret[p] = [err |-> "model BadDbModel not registered", val |-> NoMetadata]
        /\ Returned(q, "Register")
        /\ op[q].arg = "BadDbModel"
        /\ ret[q].err = "missing required db tag"

(***************************************************************************)
(* Executor claims                                                         *)
(***************************************************************************)
Done(name) == call.name = name /\ call.phase = "done"

\* The errors that report an answer of the database, not a rejected request.
DriverErrors == {"failed to get total count", "failed to execute query", "failed to execute update"}

\* C1: an UpdateRequest whose Set or Where is empty is turned down by
\* ValidateUpdateRequest, by buildUpdateQuery and by ExecuteUpdate, which
\* then sends nothing; every UPDATE that is sent has at least one SET
\* assignment and at least one WHERE predicate.
C1_EmptySetOrWhereNeverUpdates ==
    call.name = "ExecuteUpdate" =>
        LET req == call.req
            unsafe == DOMAIN req.Set = {} \/ req.Where = <<>>
            meta == getModelMetadata(variant, models, converters, ResultModel)
        IN /\ unsafe =>
                \A order \in Orders(DOMAIN req.Set) :
                    /\ ValidateUpdateRequest(req, meta.val, order) # NoErr
                    /\ buildUpdateQuery(variant, models, converters, ResultModel, req, order).err # NoErr
                    /\ buildUpdateQuery(variant, models, converters, ResultModel, req, order).query = NoStmt
           /\ call.phase = "done" =>
                /\ unsafe => (call.out.err # NoErr /\ call.out.sent = <<>>)
                /\ \A i \in 1..Len(call.out.sent) :
                      /\ call.out.sent[i].kind = "update"
                      /\ call.out.sent[i].set # <<>>
                      /\ call.out.sent[i].where # <<>>

\* A well-typed assignment without any condition, on a registered model and
\* a working database, is refused and nothing is sent.
C1_Witness ==
    /\ Done("ExecuteUpdate")
    /\ call.req.Set = [k \in {"name"} |-> Val("string", "x")]
    /\ call.req.Where = <<>>
    /\ models = Registered
    /\ call.db = "ok"
    /\ call.out.err = "failed to build update query"
    /\ call.out.sent = <<>>

\* What every check of a call that sent something must have said.
Validated ==
    CASE call.name = "Execute" ->
            /\ ValidateQuery(call.req, Lookup(models, ResultModel).val) = NoErr
            /\ \A i \in 1..Len(call.out.sent) : ToSql(call.out.sent[i]) = NoErr
      [] call.name = "ExecuteUpdate" ->
            /\ buildUpdateQuery(variant, models, converters, ResultModel, call.req, call.order).err = NoErr
            /\ \A i \in 1..Len(call.out.sent) : ToSql(call.out.sent[i]) = NoErr
      [] call.name = "ExecuteRaw" ->
            /\ validateQueryParams(call.req.Query, call.req.Params).err = NoErr
            /\ ValidateMapParamsAgainstStructNamed(call.req.Params,
                   ExtractNamedPlaceholders(call.req.Query)).err = NoErr
            /\ validateSQLSyntax(call.out.finalQuery) = NoErr

\* C2: a call of Execute, ExecuteRaw or ExecuteUpdate that returns an error
\* other than an answer of the database has sent no statement, the count
\* query included; a call that sent a statement had passed every check.
C2_NoDispatchBeforeValidation ==
    call.phase = "done" =>
        /\ call.out.err \notin ({NoErr, Panic} \cup DriverErrors) => call.out.sent = <<>>
        /\ call.out.sent # <<>> => Validated

\* A paginated Execute whose condition the validator lets through but the
\* SQL generator refuses (> with nil) stops before the count query is sent.
C2_Witness ==
    /\ Done("Execute")
    /\ call.db = "ok"
    /\ call.req.Limit # <<>>
    /\ ValidateQuery(call.req, Lookup(models, ResultModel).val) = NoErr
    /\ call.out.err = "failed to generate count sql"
    /\ call.out.sent = <<>>

(***************************************************************************)
(* Raw query pipeline claims                                               *)
(***************************************************************************)
\* The names n for which the token {{n}} stands in the text q: a run of
\* word characters between an opening and a closing pair of braces.
PlaceholderNames(q) ==
    LET starts == {i \in 3..Len(q) : q[i - 1] = "{" /\ q[i - 2] = "{"}
        ends   == {j \in 1..(Len(q) - 2) : q[j + 1] = "}" /\ q[j + 2] = "}"}
    IN { SubSeq(q, ij[1], ij[2]) :
           ij \in { x \in starts \X ends :
                     x[1] <= x[2] /\ \A k \in x[1]..x[2] : q[k] \in WordChars } }

Occurs(q, tok) == \E i \in 1..Len(q) : HasPrefixAt(q, i, tok)

FirstIndex(q, tok) == CHOOSE i \in 1..Len(q) :
    HasPrefixAt(q, i, tok) /\ \A j \in 1..(i - 1) : ~HasPrefixAt(q, j, tok)

\* The text in which every $k of q is put back to the token of names[k].
RECURSIVE Unrewrite(_, _, _)
Unrewrite(q, names, k) ==
    IF k = 0 THEN q
    ELSE Unrewrite(ReplaceAll(q, <<"$">> \o Itoa(k), Placeholder(names[k])), names, k - 1)

\* C3: ExecuteRaw sends a rewritten query to the database only if it parses
\* as exactly one statement and that statement is a SELECT.
C3_OnlySingleSelectExecuted ==
    (Done("ExecuteRaw") /\ call.out.sent # <<>>) =>
        /\ Parse(call.out.finalQuery).err = NoErr
        /\ Parse(call.out.finalQuery).stmts = <<"select">>

\* C4: the completeness check of ExecuteRaw succeeds if and only if the keys
\* of the parameter map are exactly the placeholder names of the query; the
\* keys that are no placeholder are reported as extra, the placeholders
\* without a key as missing.
C4_CompletenessIffSameSet ==
    Done("ExecuteRaw") =>
        LET q     == call.req.Query
            keys  == DOMAIN call.req.Params
            names == PlaceholderNames(q)
            r     == validateQueryParams(q, call.req.Params)
        IN /\ (r.err = NoErr) <=> (keys = names)
           /\ r.extra = keys \ names
           /\ r.missing = names \ keys
           /\ call.phase = "done" => ((call.out.err = "parameter mismatch") <=> (keys # names))

\* A query with two placeholders and exactly their two keys passes the check.
C4_Witness ==
    /\ Done("ExecuteRaw")
    /\ Cardinality(PlaceholderNames(call.req.Query)) = 2
    /\ DOMAIN call.req.Params = PlaceholderNames(call.req.Query)
    /\ call.out.err # "parameter mismatch"

\* C5: ExtractNamedPlaceholders returns the distinct placeholder names in
\* first-occurrence order; the rewrite puts $k at every occurrence of the
\* k-th name and leaves no token of an extracted name; the argument list
\* sent to the driver has one entry per distinct name, entry k being the
\* value supplied for the k-th name.
C5_PlaceholderRewrite ==
    Done("ExecuteRaw") =>
        LET q     == call.req.Query
            names == ExtractNamedPlaceholders(q)
            final == ReplaceNamedWithDollarPlaceholders(q, names)
        IN /\ Range(names) = PlaceholderNames(q)
           /\ \A i, j \in 1..Len(names) :
                 i < j => /\ names[i] # names[j]
                          /\ FirstIndex(q, Placeholder(names[i])) < FirstIndex(q, Placeholder(names[j]))
           /\ \A k \in 1..Len(names) : ~Occurs(final, Placeholder(names[k]))
           /\ Unrewrite(final, names, Len(names)) = q
           /\ (call.phase = "done" /\ call.out.sent # <<>>) =>
                 /\ call.out.sent[1].sql = final
                 /\ Len(call.out.sent[1].args) = Len(names)
                 /\ \A k \in 1..Len(names) : call.out.sent[1].args[k] = call.req.Params[names[k]]

\* {{a}}, {{b}}, {{a}} with {a: x, b: y} is sent as $1, $2, $1 with [x, y].
C5_Witness ==
    /\ Done("ExecuteRaw")
    /\ call.req.Query = <<"S">> \o Placeholder(<<"a">>) \o Placeholder(<<"b">>) \o Placeholder(<<"a">>)
    /\ Len(call.out.sent) = 1
    /\ call.out.sent[1].sql = <<"S", "$", "1", "$", "2", "$", "1">>
    /\ call.out.sent[1].args = <<[t |-> "int64", v |-> "x"], [t |-> "string", v |-> "y"]>>

(***************************************************************************)
(* Validator claims.  The rules are stated on the classes of the spec's    *)
(* table, not on reflect kinds.                                            *)
(***************************************************************************)
\* numeric, string, timestamp, bool, or the type itself (an array type)
TypeClass(t) ==
    CASE t \in {"int", "int32", "int64", "float64"} -> "numeric"
      [] t = "string" -> "string"
      [] t = "time.Time" -> "timestamp"
      [] t = "bool" -> "bool"
      [] OTHER -> t

AnyTypeOperators == {"=", "!=", "IN", "NOT IN", "IS NULL", "IS NOT NULL"}

OrderedOperators == {">", "<", ">=", "<="}

PatternOperators == {"LIKE", "ILIKE"}

NullOperators == {"IS NULL", "IS NOT NULL"}

ClosedOperators == AnyTypeOperators \cup OrderedOperators \cup PatternOperators

\* The operator is of a class the table allows for a field of this type.
OperatorAllowed(o, fieldType) ==
    \/ o \in AnyTypeOperators
    \/ o \in OrderedOperators /\ TypeClass(fieldType) \in {"numeric", "string", "timestamp"}
    \/ o \in PatternOperators /\ TypeClass(fieldType) = "string"

IsSequence(val) == val.v = "slice"

\* A typed sequence is judged by its element type, an untyped one element by
\* element.
ElementsCompatible(fieldType, val) ==
    IF val.t = "[]interface {}"
       THEN \A i \in 1..Len(val.elems) : TypeClass(val.elems[i].t) = TypeClass(fieldType)
       ELSE \E e \in {"int64", "string"} : val.t = "[]" \o e /\ TypeClass(e) = TypeClass(fieldType)

\* The value of a condition suits the field; a condition without a value
\* (nil) has nothing to check.
ValueCompatible(o, fieldType, val) ==
    \/ val = NilVal
    \/ o \in {"IN", "NOT IN"} /\ IsSequence(val) /\ ElementsCompatible(fieldType, val)
    \/ o \notin {"IN", "NOT IN"} /\ TypeClass(val.t) = TypeClass(fieldType)

Known(req, t) == {i \in 1..Len(req.Where) : req.Where[i].Field \in JSONNames(t)}

NormalizedTypeOf(t, jsonName) ==
    normalizeReflectType((CHOOSE f \in Range(StructFields(t)) : f.json = jsonName).type)

\* The rules of the claim that a query request on record type t breaks.
Violations(req, t) ==
    LET nt(i) == NormalizedTypeOf(t, req.Where[i].Field)
    IN {k \in {"field existence", "operator validity", "operator/type compatibility",
               "value/type compatibility", "limit", "offset"} :
          \/ /\ k = "field existence"
             /\ \/ \E i \in 1..Len(req.Select) : req.Select[i] \notin JSONNames(t)
                \/ \E i \in 1..Len(req.Where) : req.Where[i].Field \notin JSONNames(t)
                \/ \E i \in 1..Len(req.OrderBy) : req.OrderBy[i].Field \notin JSONNames(t)
          \/ /\ k = "operator validity"
             /\ \E i \in Known(req, t) : req.Where[i].Operator \notin ClosedOperators
          \/ /\ k = "operator/type compatibility"
             /\ \E i \in Known(req, t) :
                   /\ req.Where[i].Operator \in ClosedOperators
                   /\ ~OperatorAllowed(req.Where[i].Operator, nt(i))
          \/ /\ k = "value/type compatibility"
             /\ \E i \in Known(req, t) :
                   ~ValueCompatible(req.Where[i].Operator, nt(i), req.Where[i].Value)
          \/ k = "limit" /\ req.Limit # <<>> /\ req.Limit[1] < 0
          \/ k = "offset" /\ req.Offset # <<>> /\ req.Offset[1] < 0}

\* The array operators, which the array claim is about.
UsesArrayOperator(req) ==
    \E i \in 1..Len(req.Where) : req.Where[i].Operator \in {OpAny, OpContains}

\* A null check that carries a value.
NullCheckWithValue(req) ==
    \E i \in 1..Len(req.Where) :
        req.Where[i].Operator \in NullOperators /\ req.Where[i].Value # NilVal

RestValid(name, req, t) ==
    IF name = "ValidateQuery"
       THEN Violations([req EXCEPT !.Where = <<>>], t) = {} /\ req.Select # <<>>
       ELSE /\ DOMAIN req.Set # {}
            /\ \A k \in DOMAIN req.Set :
                  /\ k \in JSONNames(t)
                  /\ \/ req.Set[k] = NilVal
                     \/ TypeClass(req.Set[k].t) = TypeClass(NormalizedTypeOf(t, k))

ValidatorDone == Done("ValidateQuery") \/ Done("ValidateUpdateRequest")

\* C14: ValidateQuery and ValidateUpdateRequest fail on every request that
\* holds an IS NULL or IS NOT NULL condition with a value on a registered
\* field, with the error that says so when the request has no other fault,
\* and accept such a condition without a value, whatever the field's type.
C14_NullCheckTakesNoValue ==
    ValidatorDone =>
        LET req == call.req
            t == call.model
            nulls == {i \in Known(req, t) : req.Where[i].Operator \in NullOperators}
            alone == Len(req.Where) = 1 /\ nulls = {1} /\ RestValid(call.name, req, t)
        IN /\ (\E i \in nulls : req.Where[i].Value # NilVal) => call.out.err # NoErr
           /\ (alone /\ req.Where[1].Value # NilVal) =>
                 call.out.err = "value must be nil for IS NULL/IS NOT NULL operators"
           /\ (alone /\ req.Where[1].Value = NilVal) => call.out.err = NoErr

\* IS NOT NULL without a value on the array-typed field is accepted by
\* ValidateUpdateRequest.
C14_Witness ==
    /\ Done("ValidateUpdateRequest")
    /\ call.model = "ArrayTestModel"
    /\ call.req.Where = <<Condition("reporting_to", OpIsNotNull, NilVal)>>
    /\ DOMAIN call.req.Set = {"name"}
    /\ call.out.err = NoErr

C16_OperatorTable ==
    (ValidatorDone /\ ~UsesArrayOperator(call.req)) =>
        LET req == call.req
            t == call.model
            alone == Len(req.Where) = 1 /\ Known(req, t) = {1} /\ RestValid(call.name, req, t)
            o == req.Where[1].Operator
            nt == NormalizedTypeOf(t, req.Where[1].Field)
            suitable == IF o \in NullOperators THEN req.Where[1].Value = NilVal
                        ELSE ValueCompatible(o, nt, req.Where[1].Value)
            operatorErrors == {"unsupported operator", "operator is not compatible with field type"}
        IN alone =>
             /\ o \notin ClosedOperators => call.out.err = "unsupported operator"
             /\ (o \in OrderedOperators /\ TypeClass(nt) \notin {"numeric", "string", "timestamp"}) =>
                   call.out.err = "operator is not compatible with field type"
             /\ (o \in PatternOperators /\ TypeClass(nt) # "string") =>
                   call.out.err = "operator is not compatible with field type"
             /\ (o \in OrderedOperators /\ TypeClass(nt) \in {"numeric", "string", "timestamp"}) =>
                   call.out.err \notin operatorErrors
             /\ (o \in PatternOperators /\ TypeClass(nt) = "string") =>
                   call.out.err \notin operatorErrors
             /\ o \in AnyTypeOperators => call.out.err \notin operatorErrors
             /\ (o \in ClosedOperators /\ OperatorAllowed(o, nt) /\ suitable) => call.out.err = NoErr

\* >= on a bool field is refused although its value is a bool.
C16_Witness ==
    /\ Done("ValidateQuery")
    /\ call.model = "ValidatorTestModel"
    /\ call.req.Where = <<Condition("active", OpGreaterThanOrEqual, Val("bool", "true"))>>
    /\ RestValid("ValidateQuery", call.req, call.model)
    /\ call.out.err = "operator is not compatible with field type"

\* C17: for a request whose only condition is on a registered field and
\* which has no other fault, ValidateQuery accepts the array-equals-any
\* operator on an array-typed field with a scalar value that suits the
\* element type and the array-contains operator with a sequence of such
\* elements, answers an error that mentions 'slice' for array-contains with
\* a scalar value, and refuses either operator on a field that is no array.
C17_ArrayOperators ==
    Done("ValidateQuery") =>
        LET req == call.req
            t == call.model
            alone == Len(req.Where) = 1 /\ Known(req, t) = {1} /\ RestValid(call.name, req, t)
            o == req.Where[1].Operator
            val == req.Where[1].Value
            ft == NormalizedTypeOf(t, req.Where[1].Field)
            isArray == ft \in {"[]int64", "[]string"}
            elemClass == TypeClass(IF ft = "[]int64" THEN "int64" ELSE "string")
        IN (alone /\ o \in {OpAny, OpContains} /\ val # NilVal) =>
             /\ (isArray /\ o = OpAny /\ ~IsSequence(val) /\ TypeClass(val.t) = elemClass) =>
                   call.out.err = NoErr
             /\ (isArray /\ o = OpContains /\ IsSequence(val)
                    /\ \A i \in 1..Len(val.elems) : TypeClass(val.elems[i].t) = elemClass) =>
                   call.out.err = NoErr
             /\ (isArray /\ o = OpContains /\ ~IsSequence(val)) =>
                   call.out.err \in {"value for IN/NOT IN must be a slice",
                                     "value for array contains must be a slice"}
             /\ ~isArray => call.out.err # NoErr

(***************************************************************************)
(* Execute claims                                                          *)
(***************************************************************************)
\* The statement of the main query among those a call sent, if it sent one.
MainQueries == {i \in 1..Len(call.out.sent) : call.out.sent[i].columns # <<"COUNT(*)">>}

\* The column names of a record type.
Columns(t) == {StructFields(t)[i].db : i \in 1..Len(StructFields(t))}

\* C13: on a registered model, a request whose Select is exactly ["ALL"] and
\* which is valid with a field list in its place passes ValidateQuery and is
\* not turned down by Execute, and the statement sent for it lists every
\* column of the model exactly once; a request with an empty Select is
\* rejected and nothing is sent.
C13_SelectAllAccepted ==
    (Done("Execute") /\ ResultModel \in DOMAIN models) =>
        LET md == Lookup(models, ResultModel).val
            req == call.req
        IN /\ (/\ req.Select = <<SelectAll>>
               /\ ValidateQuery([req EXCEPT !.Select = <<"id">>], md) = NoErr) =>
                    /\ ValidateQuery(req, md) = NoErr
                    /\ call.out.err \notin {"failed to validate query", "failed to build query"}
                    /\ \A i \in MainQueries :
                          /\ Range(call.out.sent[i].columns) = Columns(ResultModel)
                          /\ Len(call.out.sent[i].columns) = Cardinality(Columns(ResultModel))
           /\ req.Select = <<>> => (call.out.err # NoErr /\ call.out.sent = <<>>)
\* The page and the page size a pagination request stands for.
NormalPage(page) == IF page < 1 THEN 1 ELSE page

NormalSize(size) == IF size < 1 THEN 10 ELSE IF size > 100 THEN 100 ELSE size

\* The request breaks no rule once its paging fields are left out, and its
\* conditions can be rendered.
SoundBesidesPaging(req, md) ==
    /\ ValidateQuery([req EXCEPT !.Pagination = <<>>, !.Limit = <<>>, !.Offset = <<>>], md) = NoErr
    /\ \A i \in 1..Len(req.Where) : PredErr(Preds(req.Where, md)[i]) = NoErr

\* C18: on a registered model and a working database, a request with
\* Pagination that is sound besides its paging fields is run, whatever its
\* own Limit and Offset are, and its query carries LIMIT = the normalized
\* page size and OFFSET = (page - 1) * page size; without Pagination the
\* query carries the request's own Limit and Offset.
C18_PaginationOverridesLimitOffset ==
    (Done("Execute") /\ ResultModel \in DOMAIN models /\ call.db = "ok") =>
        LET req == call.req
            md == Lookup(models, ResultModel).val
            size == NormalSize(req.Pagination[1].PageSize)
            page == NormalPage(req.Pagination[1].Page)
        IN /\ (req.Pagination # <<>> /\ SoundBesidesPaging(req, md)) =>
                 /\ call.out.err = NoErr
                 /\ MainQueries # {}
                 /\ \A i \in MainQueries :
                       /\ call.out.sent[i].limit = <<size>>
                       /\ call.out.sent[i].offset = <<(page - 1) * size>>
           /\ req.Pagination = <<>> =>
                 \A i \in MainQueries :
                    /\ call.out.sent[i].limit = req.Limit
                    /\ call.out.sent[i].offset = req.Offset
---------------------------------------------------------------------------
(* Pagination claims *)

\* C19: ValidatePagination returns, for every input, a page >= 1 and a page
\* size in 1..MaxPageSize: a page below 1 becomes 1, a page size below 1
\* becomes DefaultPageSize, a page size above MaxPageSize becomes
\* MaxPageSize, values in range are unchanged, and the offset computed from
\* the result is never negative.
C19_PaginationNormalized ==
    Done("ValidatePagination") =>
        LET p == call.out.page
            in == call.req
        IN /\ p.Page >= 1
           /\ p.PageSize \in 1..MaxPageSize
           /\ in = <<>> => p = PaginationRequest(1, DefaultPageSize)
           /\ in # <<>> =>
                 /\ p.Page = NormalPage(in[1].Page)
                 /\ p.PageSize = NormalSize(in[1].PageSize)
           /\ call.out.offset >= 0

\* C20: no call into the core ends in a panic.
C20_NoPanic ==
    call.phase = "done" => call.out.err # Panic
---------------------------------------------------------------------------
(* ExecuteRaw result claims *)

\* The json names a result map is to hold: those of the registered fields
\* named in SelectFields, all registered fields when SelectFields is empty.
ExpectedKeys(t, selectFields) ==
    { StructFields(t)[i].json : i \in { j \in 1..Len(StructFields(t)) :
          \/ selectFields = <<>>
          \/ StructFields(t)[j].db \in Range(selectFields)
          \/ StructFields(t)[j].json \in Range(selectFields) } }

\* The value a scanned struct holds for the field of a json name.
ScannedValue(t, row, jsonName) ==
    LET i == CHOOSE j \in 1..Len(StructFields(t)) : StructFields(t)[j].json = jsonName
    IN row[StructFields(t)[i].name]

\* C21: every row ExecuteRaw returns is a map keyed by the json names of
\* the result type's registered fields, each key holding the value scanned
\* into that field: exactly the fields named in SelectFields when it is not
\* empty, every registered field when it is.
C21_RowsKeyedByJSONName ==
    (Done("ExecuteRaw") /\ call.out.err = NoErr) =>
        /\ Len(call.out.results) = Len(call.out.structResults)
        /\ \A i \in 1..Len(call.out.results) :
              /\ DOMAIN call.out.results[i] = ExpectedKeys(ResultModel, call.req.SelectFields)
              /\ \A k \in DOMAIN call.out.results[i] :
                    call.out.results[i][k] = ScannedValue(ResultModel, call.out.structResults[i], k)

\* The parameters of a request that are typed: named in the query, declared
\* in the parameter struct and supplied.
TypedParams(req) ==
    { p \in Range(ExtractNamedPlaceholders(req.Query)) : p \in DOMAIN ParamStruct /\ p \in DOMAIN req.Params }

\* C22: the parameter-typing step of ExecuteRaw accepts a supplied value
\* whenever its type is compatible with the declared type of the parameter
\* under the validator's relation (any, identical, same numeric, string,
\* bool or timestamp family), and otherwise fails with a type mismatch.
C22_ParamTypingFollowsValidator ==
    (Done("ExecuteRaw") /\ validateQueryParams(call.req.Query, call.req.Params).err = NoErr
       /\ Range(ExtractNamedPlaceholders(call.req.Query)) \subseteq DOMAIN ParamStruct) =>
        LET compatible == \A p \in TypedParams(call.req) :
                             AreTypesCompatible(ParamStruct[p], TypeOf(call.req.Params[p]))
        IN (call.out.err = "parameter type mismatch") <=> ~compatible

---------------------------------------------------------------------------
(* Update and builder claims *)

\* C23: ExecuteUpdate accepts an update request on a registered model
\* exactly when ValidateUpdateRequest accepts it; in particular IN with a
\* typed slice of a compatible element type is accepted and executed, and a
\* null check carrying a value is rejected.
C23_UpdateWhereAsValidated ==
    (Done("ExecuteUpdate") /\ ResultModel \in DOMAIN models) =>
        LET accepted == call.out.err \notin {"failed to build update query",
                                             "failed to generate update sql"}
        IN accepted <=> (ValidateUpdateRequest(call.req, models[ResultModel], call.order) = NoErr)

\* C24: every metadata entry of the registry has one Field per struct field
\* of its record type, each with a non-empty external name and a non-empty
\* column name, and no two external names with the same column name; a
\* record type in which two fields share a json tag or a db tag is
\* therefore never registered.
C24_FieldsDistinct ==
    \A t \in DOMAIN models :
       LET fields == models[t].Fields
       IN /\ Cardinality(DOMAIN fields) = Len(StructFields(t))
          /\ \A j \in DOMAIN fields : j # "" /\ fields[j].Name # ""
          /\ \A j, k \in DOMAIN fields : j # k => fields[j].Name # fields[k].Name

\* The pieces of a text between the occurrences of a separator.
RECURSIVE SplitAt(_, _, _)
SplitAt(tokens, sep, cur) ==
    IF tokens = <<>> THEN <<cur>>
    ELSE IF Head(tokens) = sep THEN <<cur>> \o SplitAt(Tail(tokens), sep, <<>>)
    ELSE SplitAt(Tail(tokens), sep, Append(cur, Head(tokens)))

\* The placeholders of a text, in order of appearance.
PlaceholdersOf(tokens) ==
    SelectSeq(tokens, LAMBDA t : t \in {Dollar(k) : k \in 1..Len(tokens)})

IsScalar(val) == val # NilVal /\ Kind(TypeOf(val)) # "slice"

Built(name) == Done(name) /\ call.out.err = NoErr /\ call.out.text.err = NoErr

\* C25: in the SQL built for a request the WHERE predicates stand in request
\* order joined by AND; a scalar value is bound to one placeholder, a
\* sequence given to IN / NOT IN to one placeholder per element, a null
\* check binds none; no value stands in the text; the placeholders are
\* $1..$n in order of appearance, n being the number of arguments.
C25_ValuesBoundInOrder ==
    Built("buildQuery") =>
        LET conds == call.req.Where
            where == call.out.text.sql.where
            args == call.out.text.args
            frags == IF where = <<>> THEN <<>> ELSE SplitAt(where, "AND", <<>>)
            count(i) == Len(PlaceholdersOf(frags[i]))
            start(i) == LET RECURSIVE sum(_)
                            sum(j) == IF j = 0 THEN 0 ELSE count(j) + sum(j - 1)
                        IN sum(i - 1)
            bound(i) == SubSeq(args, start(i) + 1, start(i) + count(i))
        IN /\ Len(frags) = Len(conds)
           /\ PlaceholdersOf(where) = [k \in 1..Len(args) |-> Dollar(k)]
           /\ \A i \in 1..Len(conds) :
                 LET c == conds[i]
                 IN /\ models[ResultModel].Fields[c.Field].Name \in Range(frags[i])
                    /\ c.Operator \in {OpIsNull, OpIsNotNull} => count(i) = 0
                    /\ (c.Operator \notin {OpIsNull, OpIsNotNull} /\ IsScalar(c.Value)) =>
                          bound(i) = <<c.Value>>
                    /\ (c.Operator \in {OpIn, OpNotIn} /\ ~IsScalar(c.Value) /\ c.Value # NilVal) =>
                          bound(i) = c.Value.elems
                    /\ \A k \in 1..Len(where) :
                          /\ IsScalar(c.Value) => where[k] # c.Value.v
                          /\ \A e \in 1..Len(c.Value.elems) : where[k] # c.Value.elems[e].v

\* id = 25 AND name LIKE x is built with two placeholders and two arguments.
C25_Witness ==
    /\ Built("buildQuery")
    /\ Len(call.req.Where) = 2
    /\ call.out.text.sql.where = <<"id", "=", "$1", "AND", "name", "LIKE", "$2">>
    /\ call.out.text.args = <<Val("int", "25"), Val("string", "x")>>

\* The column of the field of an external name.
ColumnOf(t, jsonName) ==
    LET i == CHOOSE j \in 1..Len(StructFields(t)) : StructFields(t)[j].json = jsonName
    IN StructFields(t)[i].db

\* C26: the ORDER BY clause of a built query has one term per OrderBy entry
\* of the request, in the request's order, each the entry's column followed
\* by DESC when Desc is true and by ASC otherwise; an entry naming an
\* unregistered field makes the build fail.
C26_OrderByInRequestOrder ==
    Done("buildQuery") =>
        LET orderBy == call.req.OrderBy
        IN /\ Built("buildQuery") =>
                 call.out.text.sql.orderBy =
                    [i \in 1..Len(orderBy) |->
                        ColumnOf(ResultModel, orderBy[i].Field)
                            \o (IF orderBy[i].Desc THEN " DESC" ELSE " ASC")]
           /\ (\E i \in 1..Len(orderBy) : orderBy[i].Field \notin JSONNames(ResultModel)) =>
                 call.out.err # NoErr

\* ORDER BY name ASC, id DESC is built from the entries name, then id descending.
C26_Witness ==
    /\ Built("buildQuery")
    /\ call.req.OrderBy = <<OrderByClause("name", FALSE), OrderByClause("id", TRUE)>>
    /\ call.out.text.sql.orderBy = <<"name ASC", "id DESC">>

\* C27: ValidateQuery accepts a request on a registered model if and only
\* if buildQuery returns a statement for it without error.
C27_ValidatorAgreesWithBuilder ==
    Done("buildQuery") =>
        ((ValidateQuery(call.req, models[ResultModel]) = NoErr) <=> (call.out.err = NoErr))

(***************************************************************************)
(* Lazy registration claims (checked under SpecLazy).                      *)
(***************************************************************************)
\* The record types whose Register succeeds on an empty registry.
ValidLazyTypes == {t \in LazyTypes : RegisterResult("idempotent", <<>>, <<>>, t).err = NoErr}

LazyReturned(p) == call.stage[p] = "returned"

\* A step in which goroutine p executes r.models[t] = metadata.
WritesEntry(p) == pc[p] = "commit" /\ pc'[p] = "done"

\* C28: with lazy registration, concurrent getModelMetadata calls for the same
\* valid, not yet registered model all return success with identical metadata
\* (the stored entry), none returns a 'not registered', 'already registered'
\* or 'failed lazy-registering' error, and the model's entry is written only
\* while it is absent, hence exactly once, under every interleaving.
C28_LazyRegistrationConcurrent ==
    /\ [](\A p \in Procs :
            (LazyReturned(p) /\ call.model[p] \in ValidLazyTypes) =>
                /\ call.out[p].err = NoErr
                /\ call.model[p] \in DOMAIN models
                /\ call.out[p].val = models[call.model[p]]
                /\ \A q \in Procs :
                     (LazyReturned(q) /\ call.model[q] = call.model[p]) =>
                         call.out[q] = call.out[p])
    /\ [][\A p \in Procs : WritesEntry(p) => op[p].arg \notin DOMAIN models]_vars

\* Two goroutines both missed on the first lookup, both called Register for
\* the same valid model, and both have returned.
C28_Witness ==
    \E p, q \in Procs :
        /\ p # q
        /\ LazyReturned(p) /\ LazyReturned(q)
        /\ call.model[p] = "TestModel" /\ call.model[q] = "TestModel"
        /\ "TestModel" \in regd[p] \cap regd[q]

(***************************************************************************)
(* Build determinism and count query claims.                               *)
(***************************************************************************)
\* A step that builds again the request that has already been built once.
Rebuilds == call.phase = "done" /\ call'.phase = "done" /\ call'.req = call.req

\* C29: building the same request against the same registered metadata twice
\* yields the same SQL text and the same argument list; the order of the SET
\* assignments and of the columns projected for the ALL sentinel does not
\* vary from one build to the next.
C29_BuildDeterministic ==
    [][(Rebuilds /\ models' = models) => call'.out.text = call.out.text]_vars

====
